---- MODULE Spec2Model ----
(***************************************************************************)
(* A model of the 6502 interpreter, the 2C02 PPU and the NES system bus    *)
(* and frame loop of the chip8-emulator repository.                        *)
(*                                                                         *)
(* The C structs are records (cpu6502_t -> cpu, ppu_t -> ppu, cartridge_t  *)
(* -> cart, the other fields of nes_t are variables of their own) and the  *)
(* C functions are operators from a machine record to a machine record,    *)
(* with the source's names.  A machine record m gathers the variables:     *)
(* m.cpu, m.ram, m.ppu, m.cart, m.controller, ...                          *)
(*                                                                         *)
(* Byte arrays (ram, oam, nametable, palette, PRG/CHR images) are kept as  *)
(* functions on the addresses written so far; an address outside the       *)
(* domain holds 0, the value memset() gave it.                             *)
(***************************************************************************)
EXTENDS Integers, Sequences, FiniteSets, TLC

VARIABLES
    bus,                \* which bus functions cpu6502_init installed: "flat" | "nes"
    cpu,                \* cpu6502_t
    ram,                \* bus_flat_t.ram (64 KiB) or nes_t.ram (2 KiB)
    ppu,                \* ppu_t
    cart,               \* cartridge_t
    controller,         \* nes_t.controller[2]
    controller_shift,   \* nes_t.controller_shift[2]
    controller_strobe,  \* nes_t.controller_strobe
    dma_pending,        \* nes_t.dma_pending
    dma_page,           \* nes_t.dma_page
    fpc,                \* position inside nes_step_frame: "idle" | "test" | "body" | "copy" | "ticks"
    start_frame,        \* nes_step_frame's local start_frame
    prev,               \* nes_step_frame's local prev (cpu.cycles before cpu6502_step)
    tick_i,             \* the inner for loops' counter i
    tick_n,             \* the inner for loops' bound: 256, 1542 or elapsed * 3
    in_dma,             \* TRUE while the iteration is the OAM DMA branch
    nmi_triggered,      \* the value the last ppu_step call returned
    nmi_count,          \* per PPU frame, the number of ppu_step calls that returned true
    nmi_entries,        \* number of cpu6502_nmi calls the frame loop made
    hist,               \* the calls made since the initial state, oldest first
    ret,                \* the value the last bus read returned
    latched,            \* controller[2] as it was at the last falling edge of the strobe
    nreads,             \* reads of each controller port since that falling edge
    chip                \* chip8_t, the CHIP-8 interpreter's machine

vars == << bus, cpu, ram, ppu, cart, controller, controller_shift,
           controller_strobe, dma_pending, dma_page, fpc, start_frame, prev,
           tick_i, tick_n, in_dma, nmi_triggered, nmi_count, nmi_entries,
           hist, ret, latched, nreads, chip >>

(***************************************************************************)
(* Bounds of the exploration.                                              *)
(***************************************************************************)
\* snippets a program is made of
ProgLen == 2
\* calls recorded in hist by the frame loop specification
MaxInstr == 7
\* calls of the CPU entry points explored by the CPU specification
MaxCalls == 5
\* calls of the CPU entry points explored from each single-instruction state
MaxOpCalls == 3
\* direct bus accesses explored by the address map specification
MaxBusOps == 3
\* PRG bank counts of the cartridges explored: 1 .. MaxBanks
MaxBanks == 3
\* register accesses explored by the PPU register specification
MaxRegOps == 4
\* PPU ticks explored by the PPU register specification
MaxPpuTicks == 2
\* reads of one controller port counted after a falling edge
MaxReads == 9
(***************************************************************************)
(* Fixed-width arithmetic.                                                 *)
(***************************************************************************)
RECURSIVE BitAnd(_, _)
BitAnd(p, q) ==
    IF p = 0 \/ q = 0 THEN 0
    ELSE (p % 2) * (q % 2) + 2 * BitAnd(p \div 2, q \div 2)

RECURSIVE BitOr(_, _)
BitOr(p, q) ==
    IF p = 0 THEN q
    ELSE IF q = 0 THEN p
    ELSE (IF p % 2 = 1 \/ q % 2 = 1 THEN 1 ELSE 0) + 2 * BitOr(p \div 2, q \div 2)

RECURSIVE BitXor(_, _)
BitXor(p, q) ==
    IF p = 0 THEN q
    ELSE IF q = 0 THEN p
    ELSE ((p + q) % 2) + 2 * BitXor(p \div 2, q \div 2)

U8(n)  == n % 256
U16(n) == n % 65536
Not8(n)  == 255 - n
Not16(n) == 65535 - n
Bit(n, k) == (n \div (2 ^ k)) % 2
Byte == 0 .. 255

\* the element of a one-element set.  A value that is used several times is
\* bound once, as x in The({ e(x) : x \in {value} }), the way the C code holds
\* it in a local variable
The(S) == CHOOSE x \in S : TRUE

\* a byte array with every element 0
Zeroed == [k \in {} |-> 0]
Get(f, k) == IF k \in DOMAIN f THEN f[k] ELSE 0
Put(f, k, val) == [j \in (DOMAIN f) \cup {k} |-> IF j = k THEN val ELSE f[j]]

(***************************************************************************)
(* cartridge.c: mapper 0 bus                                               *)
(* A PRG image is kept as nops (the number of leading NOP bytes), code     *)
(* (the bytes that follow them) and hi (the bytes set elsewhere, the       *)
(* vectors and the handlers); every other byte of the image is 0.          *)
(***************************************************************************)
PrgByte(c, off) ==
    IF off < c.nops THEN \hEA
    ELSE IF off - c.nops < Len(c.code) THEN c.code[off - c.nops + 1]
    ELSE Get(c.hi, off)

cartridge_cpu_read(c, addr) ==
    IF addr >= \h8000
    THEN IF addr < \hC000 THEN PrgByte(c, BitAnd(addr, \h3FFF))
         ELSE IF c.prg_banks = 1 THEN PrgByte(c, BitAnd(addr, \h3FFF))
         ELSE PrgByte(c, \h4000 + BitAnd(addr, \h3FFF))
    ELSE 0

cartridge_cpu_write(m, addr, val) == m

cartridge_chr_read(c, addr) ==
    IF c.chr_banks > 0 THEN Get(c.chr_rom, BitAnd(addr, \h1FFF))
    ELSE Get(c.chr_ram, BitAnd(addr, \h1FFF))

cartridge_chr_write(c, addr, val) ==
    IF c.chr_banks = 0
    THEN [c EXCEPT !.chr_ram = Put(@, BitAnd(addr, \h1FFF), val)]
    ELSE c

(***************************************************************************)
(* ppu.c: the PPU's own bus                                                *)
(***************************************************************************)
\* a variant with four physical tables: C34 does not hold of it
NametableIndex_Mut(c, addr) == BitAnd(addr, \h2FFF) - \h2000

NametableIndex(c, addr) ==
    LET a2     == BitAnd(addr, \h2FFF)
        offset == a2 - \h2000
        table  == offset \div \h0400
        index  == offset % \h0400
    IN  IF c.mirror = "MIRROR_VERTICAL"
        THEN (table % 2) * \h0400 + index
        ELSE (table \div 2) * \h0400 + index

\* a variant without the aliases: C20 does not hold of it
PaletteIndex_Mut(addr) == BitAnd(addr, \h1F)

PaletteIndex(addr) ==
    LET idx == BitAnd(addr, \h1F)
    IN  IF idx = \h10 THEN \h00
        ELSE IF idx = \h14 THEN \h04
        ELSE IF idx = \h18 THEN \h08
        ELSE IF idx = \h1C THEN \h0C
        ELSE idx

ppu_bus_read(m, addr0) ==
    LET addr == BitAnd(addr0, \h3FFF)
    IN  IF addr < \h2000 THEN cartridge_chr_read(m.cart, addr)
        ELSE IF addr < \h3F00 THEN Get(m.ppu.nametable, NametableIndex(m.cart, addr))
        ELSE Get(m.ppu.palette, PaletteIndex(addr))

ppu_bus_write(m, addr0, val) ==
    LET addr == BitAnd(addr0, \h3FFF)
    IN  IF addr < \h2000
        THEN [m EXCEPT !.cart = cartridge_chr_write(@, addr, val)]
        ELSE IF addr < \h3F00
        THEN [m EXCEPT !.ppu.nametable = Put(@, NametableIndex(m.cart, addr), val)]
        ELSE [m EXCEPT !.ppu.palette = Put(@, PaletteIndex(addr), BitAnd(val, \h3F))]

(***************************************************************************)
(* ppu.c: the CPU-facing registers $2000-$2007                             *)
(***************************************************************************)
VramIncrement(p) == IF BitAnd(p.ctrl, \h04) # 0 THEN 32 ELSE 1

\* case 0 of ppu_cpu_write: the NMI edge leaves nmi_occurred as it is and
\* signals nothing to the caller
PpuCtrlWrite(p, val) ==
    LET prev_nmi == p.nmi_output
        out      == BitAnd(val, \h80) # 0
        t1       == BitOr(BitAnd(p.t, \hF3FF), BitAnd(val, \h03) * 1024)
    IN  [p EXCEPT !.ctrl = val,
                  !.nmi_output = out,
                  !.t = t1,
                  !.nmi_occurred =
                      IF ~prev_nmi /\ out /\ p.nmi_occurred THEN TRUE ELSE @]

PpuScrollWrite(p, val) ==
    IF ~p.w
    THEN [p EXCEPT !.t = BitOr(BitAnd(p.t, \hFFE0), val \div 8),
                   !.fine_x = BitAnd(val, \h07),
                   !.w = TRUE]
    ELSE [p EXCEPT !.t = BitOr(BitOr(BitAnd(p.t, \h8C1F),
                                     BitAnd(val, \h07) * 4096),
                               BitAnd(val, \hF8) * 4),
                   !.w = FALSE]

PpuAddrWrite(p, val) ==
    IF ~p.w
    THEN [p EXCEPT !.t = BitOr(BitAnd(p.t, \h00FF), BitAnd(val, \h3F) * 256),
                   !.w = TRUE]
    ELSE LET t1 == BitOr(BitAnd(p.t, \hFF00), val)
         IN  [p EXCEPT !.t = t1, !.v = t1, !.w = FALSE]

ppu_cpu_write(m, addr, val) ==
    LET reg == BitAnd(addr, \h07)
        p   == m.ppu
    IN  CASE reg = 0 -> [m EXCEPT !.ppu = PpuCtrlWrite(p, val)]
          [] reg = 1 -> [m EXCEPT !.ppu.mask = val]
          [] reg = 3 -> [m EXCEPT !.ppu.oam_addr = val]
          [] reg = 4 -> [m EXCEPT !.ppu.oam = Put(@, p.oam_addr, val),
                                  !.ppu.oam_addr = U8(p.oam_addr + 1)]
          [] reg = 5 -> [m EXCEPT !.ppu = PpuScrollWrite(p, val)]
          [] reg = 6 -> [m EXCEPT !.ppu = PpuAddrWrite(p, val)]
          [] reg = 7 -> LET m1 == ppu_bus_write(m, p.v, val)
                        IN  [m1 EXCEPT !.ppu.v = U16(p.v + VramIncrement(p))]
          [] OTHER   -> m

\* case 2 of ppu_cpu_read: the byte returned
PpuStatusValue(p) ==
    LET result == BitAnd(p.status, \hE0)
    IN  IF p.nmi_occurred THEN BitOr(result, \h80) ELSE result

\* a variant that leaves the write toggle alone: C7 does not hold of it
PpuStatusRead_Mut(p) == [p EXCEPT !.nmi_occurred = FALSE]

\* case 2 of ppu_cpu_read: the side effects
PpuStatusRead(p) == [p EXCEPT !.nmi_occurred = FALSE, !.w = FALSE]

\* a variant whose $2007 read bypasses the read buffer: C33 does not hold of it
ppu_cpu_read_Mut(m, addr) ==
    [val |-> ppu_bus_read(m, m.ppu.v),
     m   |-> [m EXCEPT !.ppu.data_buf = ppu_bus_read(m, m.ppu.v),
                       !.ppu.v = U16(m.ppu.v + VramIncrement(m.ppu))]]

ppu_cpu_read(m, addr) ==
    LET reg == BitAnd(addr, \h07)
        p   == m.ppu
    IN  CASE reg = 2 -> [val |-> PpuStatusValue(p),
                         m   |-> [m EXCEPT !.ppu = PpuStatusRead(p)]]
          [] reg = 4 -> [val |-> Get(p.oam, p.oam_addr), m |-> m]
          [] reg = 7 ->
               LET data == IF p.v < \h3F00 THEN p.data_buf
                           ELSE ppu_bus_read(m, p.v)
                   buf  == IF p.v < \h3F00 THEN ppu_bus_read(m, p.v)
                           ELSE ppu_bus_read(m, U16(p.v - \h1000 + 65536))
               IN  [val |-> data,
                    m   |-> [m EXCEPT !.ppu.data_buf = buf,
                                      !.ppu.v = U16(p.v + VramIncrement(p))]]
          [] OTHER   -> [val |-> 0, m |-> m]

(***************************************************************************)
(* ppu.c: render_scanline.  The program never reads the framebuffer; the   *)
(* scanline's effects on the rest of the state are the sprite-0 hit bit of *)
(* status and the post-scanline update of v.  The framebuffer row is       *)
(* FrameRow, further down.                                                 *)
(***************************************************************************)
\* the coarse-X increment of the local copy of v at the end of a tile
CoarseXStep(v) ==
    IF BitAnd(v, \h001F) = 31
    THEN BitXor(BitAnd(v, Not16(\h001F)), \h0400)
    ELSE U16(v + 1)

\* the local copy of v after k tiles
RECURSIVE CoarseXInc(_, _)
CoarseXInc(v, k) ==
    IF k = 0 THEN v
    ELSE The({ CoarseXInc(v1, k - 1) : v1 \in { CoarseXStep(v) } })

\* the 2-bit pixel of bit position bit of a pattern row at pattern_addr
PatternPixel(m, pattern_addr, bit) ==
    LET plane0 == ppu_bus_read(m, pattern_addr)
        plane1 == ppu_bus_read(m, pattern_addr + 8)
    IN  Bit(plane1, bit) * 2 + Bit(plane0, bit)

\* bg_pixel[x] of the scanline
BgPixel(m, x) ==
    IF BitAnd(m.ppu.mask, \h08) = 0 THEN 0
    ELSE LET tile    == (x + m.ppu.fine_x) \div 8
             px      == (x + m.ppu.fine_x) % 8
             v       == CoarseXInc(m.ppu.v, tile)
             tile_id == ppu_bus_read(m, BitOr(\h2000, BitAnd(v, \h0FFF)))
             pattern_base == IF BitAnd(m.ppu.ctrl, \h10) # 0 THEN \h1000 ELSE 0
             fine_y  == BitAnd(v \div 4096, \h07)
         IN  PatternPixel(m, pattern_base + tile_id * 16 + fine_y, 7 - px)

\* spr_zero[x] of the scanline: sprite 0 has an opaque pixel at column x
SprZero(m, x) ==
    LET p    == m.ppu
        sprite_height == IF BitAnd(p.ctrl, \h20) # 0 THEN 16 ELSE 8
        sy   == Get(p.oam, 0)
        tile == Get(p.oam, 1)
        attr == Get(p.oam, 2)
        sx   == Get(p.oam, 3)
        row0 == p.scanline - (sy + 1)
        row1 == IF BitAnd(attr, \h80) # 0 THEN sprite_height - 1 - row0 ELSE row0
        pattern_addr ==
            IF sprite_height = 8
            THEN (IF BitAnd(p.ctrl, \h08) # 0 THEN \h1000 ELSE 0) + tile * 16 + row1
            ELSE (IF tile % 2 = 1 THEN \h1000 ELSE 0)
                 + (IF row1 >= 8 THEN BitAnd(tile, \hFE) + 1 ELSE BitAnd(tile, \hFE)) * 16
                 + (IF row1 >= 8 THEN row1 - 8 ELSE row1)
    IN  /\ BitAnd(p.mask, \h10) # 0
        /\ row0 >= 0 /\ row0 < sprite_height
        /\ x - sx \in 0 .. 7
        /\ PatternPixel(m, pattern_addr,
                        IF BitAnd(attr, \h40) # 0 THEN x - sx ELSE 7 - (x - sx)) # 0

\* a variant that tests column 255 as well: C35 does not hold of it
Sprite0Hit_Mut(m) ==
    \E x \in 0 .. 255 :
        /\ BgPixel(m, x) # 0
        /\ BitAnd(m.ppu.mask, \h08) # 0
        /\ (x >= 8 \/ BitAnd(m.ppu.mask, \h02) # 0)
        /\ SprZero(m, x)
        /\ (x >= 8 \/ BitAnd(m.ppu.mask, \h04) # 0)

\* the sprite-0 hit test of the compositing loop
Sprite0Hit(m) ==
    \E x \in 0 .. 254 :
        /\ BgPixel(m, x) # 0
        /\ BitAnd(m.ppu.mask, \h08) # 0
        /\ (x >= 8 \/ BitAnd(m.ppu.mask, \h02) # 0)
        /\ SprZero(m, x)
        /\ (x >= 8 \/ BitAnd(m.ppu.mask, \h04) # 0)

\* the post-scanline update of v: fine Y / coarse Y, then horizontal bits of t
ScanlineV(v, t) ==
    LET cy0 == BitAnd(v, \h03E0) \div 32
        v0  == BitAnd(v, Not16(\h7000))
        v1  == IF BitAnd(v, \h7000) # \h7000 THEN U16(v + \h1000)
               ELSE IF cy0 = 29
                    THEN BitAnd(BitXor(v0, \h0800), Not16(\h03E0))
               ELSE IF cy0 = 31
                    THEN BitAnd(v0, Not16(\h03E0))
               ELSE BitOr(BitAnd(v0, Not16(\h03E0)), (cy0 + 1) * 32)
    IN  BitOr(BitAnd(v1, Not16(\h041F)), BitAnd(t, \h041F))

render_scanline(m) ==
    [m EXCEPT !.ppu.status = IF Sprite0Hit(m) THEN BitOr(@, \h40) ELSE @,
              !.ppu.v = ScanlineV(m.ppu.v, m.ppu.t)]

(***************************************************************************)
(* ppu.c: ppu_step, one PPU cycle                                          *)
(***************************************************************************)
\* the tick that starts VBlank
VBlankStart(p) == p.scanline = 241 /\ p.cycle = 1

\* a variant that signals every VBlank start: C4 does not hold of it
NmiTriggered_Mut(p) == TRUE

\* the value ppu_step returns on the tick that starts VBlank
NmiTriggered(p) == p.nmi_output

\* a variant that counts two frames at the wrap: C3 does not hold of it
PpuAdvance_Mut(p) ==
    IF p.cycle + 1 > 340
    THEN IF p.scanline + 1 > 260
         THEN [p EXCEPT !.cycle = 0, !.scanline = -1, !.frame = @ + 2]
         ELSE [p EXCEPT !.cycle = 0, !.scanline = @ + 1]
    ELSE [p EXCEPT !.cycle = @ + 1]

\* a variant with one scanline more in the frame: C32 does not hold of it
PpuAdvance_Long(p) ==
    IF p.cycle + 1 > 340
    THEN IF p.scanline + 1 > 261
         THEN [p EXCEPT !.cycle = 0, !.scanline = -1, !.frame = @ + 1]
         ELSE [p EXCEPT !.cycle = 0, !.scanline = @ + 1]
    ELSE [p EXCEPT !.cycle = @ + 1]

\* the advance to the next cycle / scanline / frame
PpuAdvance(p) ==
    IF p.cycle + 1 > 340
    THEN IF p.scanline + 1 > 260
         THEN [p EXCEPT !.cycle = 0, !.scanline = -1, !.frame = @ + 1]
         ELSE [p EXCEPT !.cycle = 0, !.scanline = @ + 1]
    ELSE [p EXCEPT !.cycle = @ + 1]

\* ppu_step: the returned flag nmi and the machine after the tick
ppu_step(m) ==
    LET p == m.ppu
        rendering_enabled == BitAnd(p.mask, \h18) # 0
        m1 == IF p.scanline = -1
              THEN LET pa == IF p.cycle = 1
                             THEN [p EXCEPT !.nmi_occurred = FALSE,
                                            !.status = BitAnd(@, Not8(\hE0))]
                             ELSE p
                       pb == IF rendering_enabled /\ p.cycle >= 280 /\ p.cycle <= 304
                             THEN [pa EXCEPT !.v = BitOr(BitAnd(@, Not16(\h7BE0)),
                                                         BitAnd(p.t, \h7BE0))]
                             ELSE pa
                   IN  [m EXCEPT !.ppu = pb]
              ELSE IF p.scanline >= 0 /\ p.scanline < 240
              THEN IF p.cycle = 0 /\ rendering_enabled
                   THEN render_scanline(m) ELSE m
              ELSE IF VBlankStart(p)
              THEN [m EXCEPT !.ppu.nmi_occurred = TRUE,
                             !.ppu.status = BitOr(@, \h80)]
              ELSE m
    IN  [nmi |-> VBlankStart(p) /\ NmiTriggered(p),
         m   |-> [m1 EXCEPT !.ppu = PpuAdvance(@)]]

\* ppu_init: memset 0, then scanline = -1
ppu_init ==
    [ctrl |-> 0, mask |-> 0, status |-> 0, oam_addr |-> 0,
     v |-> 0, t |-> 0, fine_x |-> 0, w |-> FALSE, data_buf |-> 0,
     nametable |-> Zeroed, palette |-> Zeroed, oam |-> Zeroed,
     scanline |-> -1, cycle |-> 0, frame |-> 0,
     nmi_occurred |-> FALSE, nmi_output |-> FALSE,
     framebuffer |-> Zeroed]

(***************************************************************************)
(* nes.c: the CPU bus of the NES                                           *)
(***************************************************************************)
\* a variant that does not shift: C9 does not hold of it
ControllerRead_Mut(m, port) ==
    [val |-> BitAnd(m.controller_shift[port], \h01), m |-> m]

\* a read of a controller port: bit 0 of the shift register, then shift right
ControllerRead(m, port) ==
    [val |-> BitAnd(m.controller_shift[port], \h01),
     m   |-> [m EXCEPT !.controller_shift[port] = @ \div 2]]

\* a write to $4016
ControllerStrobe(m, val) ==
    IF BitAnd(val, \h01) # 0
    THEN [m EXCEPT !.controller_strobe = TRUE]
    ELSE IF m.controller_strobe
    THEN [m EXCEPT !.controller_shift = m.controller,
                   !.controller_strobe = FALSE]
    ELSE m

nes_bus_read(m, addr) ==
    IF addr < \h2000 THEN [val |-> Get(m.ram, BitAnd(addr, \h07FF)), m |-> m]
    ELSE IF addr < \h4000 THEN ppu_cpu_read(m, BitAnd(addr, \h0007))
    ELSE IF addr = \h4016 THEN ControllerRead(m, 0)
    ELSE IF addr = \h4017 THEN ControllerRead(m, 1)
    ELSE IF addr < \h4020 THEN [val |-> 0, m |-> m]
    ELSE [val |-> cartridge_cpu_read(m.cart, addr), m |-> m]

nes_bus_write(m, addr, val) ==
    IF addr < \h2000 THEN [m EXCEPT !.ram = Put(@, BitAnd(addr, \h07FF), val)]
    ELSE IF addr < \h4000 THEN ppu_cpu_write(m, BitAnd(addr, \h0007), val)
    ELSE IF addr = \h4014 THEN [m EXCEPT !.dma_pending = TRUE, !.dma_page = val]
    ELSE IF addr = \h4016 THEN ControllerStrobe(m, val)
    ELSE IF addr < \h4020 THEN m
    ELSE cartridge_cpu_write(m, addr, val)

nes_set_controller(m, port, buttons) ==
    IF port < 0 \/ port > 1 THEN m
    ELSE [m EXCEPT !.controller[port] = buttons]

(***************************************************************************)
(* cpu6502.h: flags, bus helpers, stack helpers                            *)
(***************************************************************************)
CPU_FLAG_C == \h01
CPU_FLAG_Z == \h02
CPU_FLAG_I == \h04
CPU_FLAG_D == \h08
CPU_FLAG_B == \h10
CPU_FLAG_U == \h20
CPU_FLAG_V == \h40
CPU_FLAG_N == \h80

cpu_set_flag(c, flag, val) ==
    IF val THEN [c EXCEPT !.status = BitOr(@, flag)]
    ELSE [c EXCEPT !.status = BitAnd(@, Not8(flag))]

cpu_get_flag(c, flag) == BitAnd(c.status, flag) # 0

cpu_set_nz(c, val) ==
    cpu_set_flag(cpu_set_flag(c, CPU_FLAG_N, BitAnd(val, \h80) # 0),
                 CPU_FLAG_Z, val = 0)

\* cpu->read / cpu->write: the bus functions cpu6502_init installed
cpu_read(m, addr) ==
    IF m.bus = "flat" THEN [val |-> Get(m.ram, addr), m |-> m]
    ELSE nes_bus_read(m, addr)

cpu_write(m, addr, val) ==
    IF m.bus = "flat" THEN [m EXCEPT !.ram = Put(@, addr, val)]
    ELSE nes_bus_write(m, addr, val)

cpu_push(m, val) ==
    LET m1 == cpu_write(m, \h0100 + m.cpu.sp, val)
    IN  [m1 EXCEPT !.cpu.sp = U8(@ + 255)]

\* a variant that reads above the stack page when S wraps: C12 does not hold
\* of it
cpu_pull_Mut(m) ==
    cpu_read([m EXCEPT !.cpu.sp = U8(@ + 1)], \h0100 + m.cpu.sp + 1)

cpu_pull(m) ==
    LET m1 == [m EXCEPT !.cpu.sp = U8(@ + 1)]
    IN  cpu_read(m1, \h0100 + m1.cpu.sp)

cpu_push16(m, val) ==
    cpu_push(cpu_push(m, BitAnd(val \div 256, \hFF)), BitAnd(val, \hFF))

cpu_pull16(m) ==
    The({ The({ [val |-> BitOr(hi.val * 256, lo.val), m |-> hi.m] :
                hi \in {cpu_pull(lo.m)} }) :
          lo \in {cpu_pull(m)} })

(***************************************************************************)
(* opcodes.c: addressing modes.  Each yields the effective address (val)   *)
(* and the machine after the operand fetch.                                *)
(***************************************************************************)
\* cpu_read(cpu, cpu->pc++)
FetchByte(m) ==
    The({ [val |-> r.val, m |-> [r.m EXCEPT !.cpu.pc = U16(@ + 1)]] :
          r \in {cpu_read(m, m.cpu.pc)} })

addr_imm(m) == [val |-> m.cpu.pc, m |-> [m EXCEPT !.cpu.pc = U16(@ + 1)]]

addr_zpg(m) == FetchByte(m)

addr_zpx(m) ==
    The({ [val |-> BitAnd(r.val + r.m.cpu.x, \hFF), m |-> r.m] :
          r \in {FetchByte(m)} })

addr_zpy(m) ==
    The({ [val |-> BitAnd(r.val + r.m.cpu.y, \hFF), m |-> r.m] :
          r \in {FetchByte(m)} })

addr_abs(m) ==
    The({ The({ [val |-> BitOr(hi.val * 256, lo.val), m |-> hi.m] :
                hi \in {FetchByte(lo.m)} }) :
          lo \in {FetchByte(m)} })

\* a variant that never reports a page crossing: C11 does not hold of it
Indexed_Mut(base, index, m) ==
    [val |-> U16(base + index), m |-> [m EXCEPT !.cpu.page_crossed = FALSE]]

\* base + index with the page crossing test of abx, aby and izy
Indexed(base, index, m) ==
    LET addr == U16(base + index)
    IN  [val |-> addr,
         m   |-> [m EXCEPT !.cpu.page_crossed =
                      BitAnd(base, \hFF00) # BitAnd(addr, \hFF00)]]

addr_abx(m) == The({ Indexed(b.val, b.m.cpu.x, b.m) : b \in {addr_abs(m)} })

addr_aby(m) == The({ Indexed(b.val, b.m.cpu.y, b.m) : b \in {addr_abs(m)} })

\* a variant that takes the high byte from page 1 when ptr is $FF: C40 does
\* not hold of it
ZeroPagePtr_Mut(m, ptr) ==
    The({ The({ [val |-> BitOr(hi.val * 256, lo.val), m |-> hi.m] :
                hi \in {cpu_read(lo.m, ptr + 1)} }) :
          lo \in {cpu_read(m, ptr)} })

\* the 16-bit pointer stored at zero-page address ptr, wrapping in page 0
ZeroPagePtr(m, ptr) ==
    The({ The({ [val |-> BitOr(hi.val * 256, lo.val), m |-> hi.m] :
                hi \in {cpu_read(lo.m, BitAnd(ptr + 1, \hFF))} }) :
          lo \in {cpu_read(m, ptr)} })

addr_izx(m) ==
    The({ ZeroPagePtr(r.m, BitAnd(r.val + r.m.cpu.x, \hFF)) :
          r \in {FetchByte(m)} })

addr_izy(m) ==
    The({ The({ Indexed(b.val, b.m.cpu.y, b.m) :
                b \in {ZeroPagePtr(r.m, r.val)} }) :
          r \in {FetchByte(m)} })

AddrMode(mode, m) ==
    CASE mode = "imm" -> addr_imm(m)
      [] mode = "zpg" -> addr_zpg(m)
      [] mode = "zpx" -> addr_zpx(m)
      [] mode = "zpy" -> addr_zpy(m)
      [] mode = "abs" -> addr_abs(m)
      [] mode = "abx" -> addr_abx(m)
      [] mode = "aby" -> addr_aby(m)
      [] mode = "izx" -> addr_izx(m)
      [] mode = "izy" -> addr_izy(m)

(***************************************************************************)
(* opcodes.c: shared instruction cores, on the cpu record c                *)
(***************************************************************************)
Carry(c) == IF cpu_get_flag(c, CPU_FLAG_C) THEN 1 ELSE 0

\* a variant that drops the carry out: C24 does not hold of it
AdcBinary_Mut(c, val) ==
    LET sum == c.a + val + Carry(c)
        ov  == BitAnd(BitAnd(Not16(BitXor(c.a, val)), BitXor(c.a, sum)), \h80) # 0
        c1  == cpu_set_flag(c, CPU_FLAG_V, ov)
        c3  == [c1 EXCEPT !.a = BitAnd(sum, \hFF)]
    IN  cpu_set_nz(c3, c3.a)

\* the binary branch of do_adc
AdcBinary(c, val) ==
    LET sum == c.a + val + Carry(c)
        ov  == BitAnd(BitAnd(Not16(BitXor(c.a, val)), BitXor(c.a, sum)), \h80) # 0
        c1  == cpu_set_flag(c, CPU_FLAG_V, ov)
        c2  == cpu_set_flag(c1, CPU_FLAG_C, sum > \hFF)
        c3  == [c2 EXCEPT !.a = BitAnd(sum, \hFF)]
    IN  cpu_set_nz(c3, c3.a)

\* a variant without the low-nibble fixup: C37 does not hold of it
AdcDecimal_Mut(c, val) ==
    LET ah  == (c.a \div 16) + (val \div 16)
                   + (IF BitAnd(c.a, \h0F) + BitAnd(val, \h0F) + Carry(c) > \h0F
                      THEN 1 ELSE 0)
        ah2 == IF ah > 9 THEN ah + 6 ELSE ah
    IN  [cpu_set_flag(c, CPU_FLAG_C, ah2 > \h0F) EXCEPT
             !.a = U8(BitAnd(ah2, \h0F) * 16
                      + BitAnd(c.a + val + Carry(c), \h0F))]

\* the decimal branch of do_adc
AdcDecimal(c, val) ==
    LET a     == c.a
        carry == Carry(c)
        bin   == a + val + carry
        al0   == BitAnd(a, \h0F) + BitAnd(val, \h0F) + carry
        al    == IF al0 > 9 THEN al0 + 6 ELSE al0
        ah    == (a \div 16) + (val \div 16) + (IF al > \h0F THEN 1 ELSE 0)
        partial == U8(BitOr(ah * 16, BitAnd(al, \h0F)))
        ov    == BitAnd(BitAnd(Not16(BitXor(a, val)), BitXor(a, ah * 16)), \h80) # 0
        ah2   == IF ah > 9 THEN ah + 6 ELSE ah
        c1    == cpu_set_flag(c, CPU_FLAG_Z, BitAnd(bin, \hFF) = 0)
        c2    == cpu_set_flag(c1, CPU_FLAG_N, BitAnd(partial, \h80) # 0)
        c3    == cpu_set_flag(c2, CPU_FLAG_V, ov)
        c4    == cpu_set_flag(c3, CPU_FLAG_C, ah2 > \h0F)
    IN  [c4 EXCEPT !.a = U8(BitOr(BitAnd(ah2, \h0F) * 16, BitAnd(al, \h0F)))]

do_adc(c, val) ==
    IF cpu_get_flag(c, CPU_FLAG_D) THEN AdcDecimal(c, val) ELSE AdcBinary(c, val)

\* a variant that sets N and Z from the adjusted accumulator: C36 does not
\* hold of it
SbcDecimal_Mut(c, val) ==
    LET borrow == 1 - Carry(c)
        bin    == U16(c.a - val - borrow + 65536)
        c1     == cpu_set_flag(c, CPU_FLAG_C, BitAnd(bin, \h100) = 0)
        c4     == cpu_set_flag(c1, CPU_FLAG_V,
                      BitAnd(BitAnd(BitXor(c.a, val), BitXor(c.a, bin)), \h80) # 0)
        al0    == BitAnd(c.a, \h0F) - BitAnd(val, \h0F) - borrow
        al     == IF al0 < 0 THEN ((al0 - 6) % 16) - \h10 ELSE al0
        ah0    == (c.a \div 16) - (val \div 16) + (IF al < 0 THEN -1 ELSE 0)
        ah     == IF ah0 < 0 THEN ah0 - 6 ELSE ah0
        a1     == U8((ah % 16) * 16 + (al % 16))
    IN  cpu_set_nz([c4 EXCEPT !.a = a1], a1)

\* the decimal branch of do_sbc
SbcDecimal(c, val) ==
    LET a      == c.a
        borrow == 1 - Carry(c)
        bin    == U16(a - val - borrow + 65536)
        c1     == cpu_set_flag(c, CPU_FLAG_C, BitAnd(bin, \h100) = 0)
        c2     == cpu_set_flag(c1, CPU_FLAG_Z, BitAnd(bin, \hFF) = 0)
        c3     == cpu_set_flag(c2, CPU_FLAG_N, BitAnd(bin, \h80) # 0)
        c4     == cpu_set_flag(c3, CPU_FLAG_V,
                      BitAnd(BitAnd(BitXor(a, val), BitXor(a, bin)), \h80) # 0)
        al0    == BitAnd(a, \h0F) - BitAnd(val, \h0F) - borrow
        al     == IF al0 < 0 THEN ((al0 - 6) % 16) - \h10 ELSE al0
        ah0    == (a \div 16) - (val \div 16) + (IF al < 0 THEN -1 ELSE 0)
        ah     == IF ah0 < 0 THEN ah0 - 6 ELSE ah0
    IN  [c4 EXCEPT !.a = U8((ah % 16) * 16 + (al % 16))]

\* a variant that adds the two's complement: C25 does not hold of it
do_sbc_Mut(c, val) ==
    IF cpu_get_flag(c, CPU_FLAG_D) THEN SbcDecimal(c, val)
    ELSE do_adc(c, U8(256 - val))

do_sbc(c, val) ==
    IF cpu_get_flag(c, CPU_FLAG_D) THEN SbcDecimal(c, val)
    ELSE do_adc(c, Not8(val))

do_cmp(c, reg, val) ==
    LET result == U16(reg - val + 65536)
        c1 == cpu_set_flag(c, CPU_FLAG_C, reg >= val)
        c2 == cpu_set_flag(c1, CPU_FLAG_Z, reg = val)
    IN  cpu_set_flag(c2, CPU_FLAG_N, BitAnd(result, \h80) # 0)

do_and(c, val) == LET a1 == BitAnd(c.a, val) IN cpu_set_nz([c EXCEPT !.a = a1], a1)

do_ora(c, val) == LET a1 == BitOr(c.a, val) IN cpu_set_nz([c EXCEPT !.a = a1], a1)

do_eor(c, val) == LET a1 == BitXor(c.a, val) IN cpu_set_nz([c EXCEPT !.a = a1], a1)

\* the shifts: the result (val) and the cpu record with its flags
do_asl(c, val) ==
    LET v1 == U8(val * 2)
    IN  [val |-> v1,
         c   |-> cpu_set_nz(cpu_set_flag(c, CPU_FLAG_C, BitAnd(val, \h80) # 0), v1)]

do_lsr(c, val) ==
    LET v1 == val \div 2
    IN  [val |-> v1,
         c   |-> cpu_set_nz(cpu_set_flag(c, CPU_FLAG_C, BitAnd(val, \h01) # 0), v1)]

do_rol(c, val) ==
    LET v1 == U8(BitOr(val * 2, Carry(c)))
    IN  [val |-> v1,
         c   |-> cpu_set_nz(cpu_set_flag(c, CPU_FLAG_C, BitAnd(val, \h80) # 0), v1)]

do_ror(c, val) ==
    LET v1 == BitOr(val \div 2, IF cpu_get_flag(c, CPU_FLAG_C) THEN \h80 ELSE 0)
    IN  [val |-> v1,
         c   |-> cpu_set_nz(cpu_set_flag(c, CPU_FLAG_C, BitAnd(val, \h01) # 0), v1)]

(***************************************************************************)
(* opcodes.c: the opcode handlers, one operator per family of handlers     *)
(* op_<mnemonic>_<mode> that differ only in the addressing mode            *)
(***************************************************************************)
\* the handlers that read an operand: what they do with the byte read
ReadCore(c, mn, val) ==
    CASE mn = "lda" -> cpu_set_nz([c EXCEPT !.a = val], val)
      [] mn = "ldx" -> cpu_set_nz([c EXCEPT !.x = val], val)
      [] mn = "ldy" -> cpu_set_nz([c EXCEPT !.y = val], val)
      [] mn = "adc" -> do_adc(c, val)
      [] mn = "sbc" -> do_sbc(c, val)
      [] mn = "cmp" -> do_cmp(c, c.a, val)
      [] mn = "cpx" -> do_cmp(c, c.x, val)
      [] mn = "cpy" -> do_cmp(c, c.y, val)
      [] mn = "and" -> do_and(c, val)
      [] mn = "ora" -> do_ora(c, val)
      [] mn = "eor" -> do_eor(c, val)
      [] mn = "bit" ->
           cpu_set_flag(
               cpu_set_flag(
                   cpu_set_flag(c, CPU_FLAG_Z, BitAnd(c.a, val) = 0),
                   CPU_FLAG_N, BitAnd(val, \h80) # 0),
               CPU_FLAG_V, BitAnd(val, \h40) # 0)

\* op_lda_*, op_ldx_*, ..., op_bit_*: read, core, page crossing penalty
OpRead(mn, mode, m) ==
    The({ The({ The({ [r.m EXCEPT !.cpu =
                          IF mode \in {"abx", "aby", "izy"} /\ c1.page_crossed
                          THEN [c1 EXCEPT !.cycles = @ + 1] ELSE c1] :
                      c1 \in {ReadCore(r.m.cpu, mn, r.val)} }) :
                r \in {cpu_read(ea.m, ea.val)} }) :
          ea \in {AddrMode(mode, m)} })

\* op_sta_*, op_stx_*, op_sty_*
OpStore(mn, mode, m) ==
    The({ cpu_write(ea.m, ea.val,
                    CASE mn = "sta" -> ea.m.cpu.a
                      [] mn = "stx" -> ea.m.cpu.x
                      [] mn = "sty" -> ea.m.cpu.y) :
          ea \in {AddrMode(mode, m)} })

\* the read-modify-write handlers: the new value and the flags
RmwCore(c, mn, val) ==
    CASE mn = "asl" -> do_asl(c, val)
      [] mn = "lsr" -> do_lsr(c, val)
      [] mn = "rol" -> do_rol(c, val)
      [] mn = "ror" -> do_ror(c, val)
      [] mn = "inc" -> [val |-> U8(val + 1), c |-> cpu_set_nz(c, U8(val + 1))]
      [] mn = "dec" -> [val |-> U8(val + 255), c |-> cpu_set_nz(c, U8(val + 255))]

\* op_asl_*, op_lsr_*, op_rol_*, op_ror_*, op_inc_*, op_dec_*
OpRmw(mn, mode, m) ==
    IF mode = "acc"
    THEN The({ [m EXCEPT !.cpu = [k.c EXCEPT !.a = k.val]] :
               k \in {RmwCore(m.cpu, mn, m.cpu.a)} })
    ELSE The({ The({ The({ cpu_write([r.m EXCEPT !.cpu = k.c], ea.val, k.val) :
                           k \in {RmwCore(r.m.cpu, mn, r.val)} }) :
                     r \in {cpu_read(ea.m, ea.val)} }) :
               ea \in {AddrMode(mode, m)} })

\* (int8_t) of a byte
\* a variant that takes the offset as unsigned: C39 does not hold of it
Int8_Mut(b) == b

Int8(b) == IF b >= 128 THEN b - 256 ELSE b

\* the condition under which each branch handler branches
BranchTaken(c, mn) ==
    CASE mn = "bpl" -> ~cpu_get_flag(c, CPU_FLAG_N)
      [] mn = "bmi" -> cpu_get_flag(c, CPU_FLAG_N)
      [] mn = "bvc" -> ~cpu_get_flag(c, CPU_FLAG_V)
      [] mn = "bvs" -> cpu_get_flag(c, CPU_FLAG_V)
      [] mn = "bcc" -> ~cpu_get_flag(c, CPU_FLAG_C)
      [] mn = "bcs" -> cpu_get_flag(c, CPU_FLAG_C)
      [] mn = "bne" -> ~cpu_get_flag(c, CPU_FLAG_Z)
      [] mn = "beq" -> cpu_get_flag(c, CPU_FLAG_Z)

\* op_bpl ... op_beq
OpBranch(mn, m) ==
    The({ LET offset == Int8(r.val)
              old_pc == r.m.cpu.pc
              new_pc == U16(old_pc + offset + 65536)
          IN  IF BranchTaken(r.m.cpu, mn)
              THEN [r.m EXCEPT !.cpu.pc = new_pc,
                               !.cpu.cycles =
                                   IF BitAnd(old_pc, \hFF00) # BitAnd(new_pc, \hFF00)
                                   THEN @ + 2 ELSE @ + 1]
              ELSE r.m :
          r \in {FetchByte(m)} })

op_jmp_abs(m) == The({ [ea.m EXCEPT !.cpu.pc = ea.val] : ea \in {addr_abs(m)} })

\* a variant whose high-byte fetch crosses the page: C38 does not hold of it
op_jmp_ind_Mut(m) ==
    The({ The({ The({ [hi.m EXCEPT !.cpu.pc = BitOr(hi.val * 256, lo.val)] :
                      hi \in {cpu_read(lo.m, U16(ea.val + 1))} }) :
                lo \in {cpu_read(ea.m, ea.val)} }) :
          ea \in {addr_abs(m)} })

op_jmp_ind(m) ==
    The({ The({ The({ [hi.m EXCEPT !.cpu.pc = BitOr(hi.val * 256, lo.val)] :
                      hi \in {cpu_read(lo.m, BitOr(BitAnd(ea.val, \hFF00),
                                                   BitAnd(ea.val + 1, \h00FF)))} }) :
                lo \in {cpu_read(ea.m, ea.val)} }) :
          ea \in {addr_abs(m)} })

op_jsr(m) ==
    The({ [cpu_push16(ea.m, U16(ea.m.cpu.pc + 65535)) EXCEPT !.cpu.pc = ea.val] :
          ea \in {addr_abs(m)} })

\* a variant that returns to the pulled address itself: C13 does not hold of it
op_rts_Mut(m) == The({ [r.m EXCEPT !.cpu.pc = r.val] : r \in {cpu_pull16(m)} })

op_rts(m) == The({ [r.m EXCEPT !.cpu.pc = U16(r.val + 1)] : r \in {cpu_pull16(m)} })

\* the interrupt sequence after the return address is pushed: push the
\* status byte flags, set I, load PC from the vector
VectorEntry(m, flags, vector) ==
    The({ The({ The({ [hi.m EXCEPT !.cpu.pc = BitOr(lo.val, hi.val * 256)] :
                      hi \in {cpu_read(lo.m, vector + 1)} }) :
                lo \in {cpu_read(m3, vector)} }) :
          m3 \in {[cpu_push(m, flags) EXCEPT
                       !.cpu = cpu_set_flag(@, CPU_FLAG_I, TRUE)]} })

\* a variant that pushes the address of the byte after BRK: C27 does not hold
\* of it
op_brk_Mut(m) ==
    The({ VectorEntry(m1, BitOr(BitOr(m1.cpu.status, CPU_FLAG_B), CPU_FLAG_U),
                      \hFFFE) :
          m1 \in {cpu_push16([m EXCEPT !.cpu.pc = U16(@ + 1)], m.cpu.pc)} })

op_brk(m) ==
    The({ VectorEntry(m1, BitOr(BitOr(m1.cpu.status, CPU_FLAG_B), CPU_FLAG_U),
                      \hFFFE) :
          m1 \in {cpu_push16([m EXCEPT !.cpu.pc = U16(@ + 1)],
                             U16(m.cpu.pc + 1))} })

\* a variant that loads the pulled byte as it is: C1 does not hold of it
PulledStatus_Mut(val) == val

\* the status register op_rti and op_plp load from a pulled byte
PulledStatus(val) == BitAnd(BitOr(val, CPU_FLAG_U), Not8(CPU_FLAG_B))

\* a variant that returns one past the pulled address, as RTS does: C14 does
\* not hold of it
op_rti_Mut(m) ==
    The({ The({ [r.m EXCEPT !.cpu.pc = U16(r.val + 1)] :
                r \in {cpu_pull16([s.m EXCEPT
                                       !.cpu.status = PulledStatus(s.val)])} }) :
          s \in {cpu_pull(m)} })

op_rti(m) ==
    The({ The({ [r.m EXCEPT !.cpu.pc = r.val] :
                r \in {cpu_pull16([s.m EXCEPT
                                       !.cpu.status = PulledStatus(s.val)])} }) :
          s \in {cpu_pull(m)} })

op_pha(m) == cpu_push(m, m.cpu.a)

op_pla(m) ==
    The({ [r.m EXCEPT !.cpu = cpu_set_nz([@ EXCEPT !.a = r.val], r.val)] :
          r \in {cpu_pull(m)} })

\* a variant that pushes the register as it is: C15 does not hold of it
op_php_Mut(m) == cpu_push(m, m.cpu.status)

op_php(m) == cpu_push(m, BitOr(BitOr(m.cpu.status, CPU_FLAG_B), CPU_FLAG_U))

op_plp(m) ==
    The({ [s.m EXCEPT !.cpu.status = PulledStatus(s.val)] : s \in {cpu_pull(m)} })

\* a variant that traps nothing: C16 does not hold of it
op_ill_Mut(m) == m

op_ill(m) == [m EXCEPT !.cpu.halted = TRUE]

\* the handlers that touch only the registers: transfers, INX..DEY, flags, NOP
OpImplied(c, mn) ==
    CASE mn = "tax" -> cpu_set_nz([c EXCEPT !.x = c.a], c.a)
      [] mn = "tay" -> cpu_set_nz([c EXCEPT !.y = c.a], c.a)
      [] mn = "txa" -> cpu_set_nz([c EXCEPT !.a = c.x], c.x)
      [] mn = "tya" -> cpu_set_nz([c EXCEPT !.a = c.y], c.y)
      [] mn = "tsx" -> cpu_set_nz([c EXCEPT !.x = c.sp], c.sp)
      [] mn = "txs" -> [c EXCEPT !.sp = c.x]
      [] mn = "inx" -> cpu_set_nz([c EXCEPT !.x = U8(c.x + 1)], U8(c.x + 1))
      [] mn = "iny" -> cpu_set_nz([c EXCEPT !.y = U8(c.y + 1)], U8(c.y + 1))
      [] mn = "dex" -> cpu_set_nz([c EXCEPT !.x = U8(c.x + 255)], U8(c.x + 255))
      [] mn = "dey" -> cpu_set_nz([c EXCEPT !.y = U8(c.y + 255)], U8(c.y + 255))
      [] mn = "clc" -> cpu_set_flag(c, CPU_FLAG_C, FALSE)
      [] mn = "sec" -> cpu_set_flag(c, CPU_FLAG_C, TRUE)
      [] mn = "cli" -> cpu_set_flag(c, CPU_FLAG_I, FALSE)
      [] mn = "sei" -> cpu_set_flag(c, CPU_FLAG_I, TRUE)
      [] mn = "cld" -> cpu_set_flag(c, CPU_FLAG_D, FALSE)
      [] mn = "sed" -> cpu_set_flag(c, CPU_FLAG_D, TRUE)
      [] mn = "clv" -> cpu_set_flag(c, CPU_FLAG_V, FALSE)
      [] mn = "nop" -> c

(***************************************************************************)
(* opcodes.c: the exported tables                                          *)
(***************************************************************************)
\* opcode_table: the handler's mnemonic of each opcode byte (index opcode + 1)
OpcodeMnemonic ==
    <<"brk", "ora", "ill", "ill", "ill", "ora", "asl", "ill", "php", "ora", "asl", "ill", "ill", "ora", "asl", "ill",
       "bpl", "ora", "ill", "ill", "ill", "ora", "asl", "ill", "clc", "ora", "ill", "ill", "ill", "ora", "asl", "ill",
       "jsr", "and", "ill", "ill", "bit", "and", "rol", "ill", "plp", "and", "rol", "ill", "bit", "and", "rol", "ill",
       "bmi", "and", "ill", "ill", "ill", "and", "rol", "ill", "sec", "and", "ill", "ill", "ill", "and", "rol", "ill",
       "rti", "eor", "ill", "ill", "ill", "eor", "lsr", "ill", "pha", "eor", "lsr", "ill", "jmp", "eor", "lsr", "ill",
       "bvc", "eor", "ill", "ill", "ill", "eor", "lsr", "ill", "cli", "eor", "ill", "ill", "ill", "eor", "lsr", "ill",
       "rts", "adc", "ill", "ill", "ill", "adc", "ror", "ill", "pla", "adc", "ror", "ill", "jmp", "adc", "ror", "ill",
       "bvs", "adc", "ill", "ill", "ill", "adc", "ror", "ill", "sei", "adc", "ill", "ill", "ill", "adc", "ror", "ill",
       "ill", "sta", "ill", "ill", "sty", "sta", "stx", "ill", "dey", "ill", "txa", "ill", "sty", "sta", "stx", "ill",
       "bcc", "sta", "ill", "ill", "sty", "sta", "stx", "ill", "tya", "sta", "txs", "ill", "ill", "sta", "ill", "ill",
       "ldy", "lda", "ldx", "ill", "ldy", "lda", "ldx", "ill", "tay", "lda", "tax", "ill", "ldy", "lda", "ldx", "ill",
       "bcs", "lda", "ill", "ill", "ldy", "lda", "ldx", "ill", "clv", "lda", "tsx", "ill", "ldy", "lda", "ldx", "ill",
       "cpy", "cmp", "ill", "ill", "cpy", "cmp", "dec", "ill", "iny", "cmp", "dex", "ill", "cpy", "cmp", "dec", "ill",
       "bne", "cmp", "ill", "ill", "ill", "cmp", "dec", "ill", "cld", "cmp", "ill", "ill", "ill", "cmp", "dec", "ill",
       "cpx", "sbc", "ill", "ill", "cpx", "sbc", "inc", "ill", "inx", "sbc", "nop", "ill", "cpx", "sbc", "inc", "ill",
       "beq", "sbc", "ill", "ill", "ill", "sbc", "inc", "ill", "sed", "sbc", "ill", "ill", "ill", "sbc", "inc", "ill" >>

\* opcode_table: the handler's addressing mode of each opcode byte
OpcodeMode ==
    <<"imp", "izx", "imp", "imp", "imp", "zpg", "zpg", "imp", "imp", "imm", "acc", "imp", "imp", "abs", "abs", "imp",
       "imp", "izy", "imp", "imp", "imp", "zpx", "zpx", "imp", "imp", "aby", "imp", "imp", "imp", "abx", "abx", "imp",
       "imp", "izx", "imp", "imp", "zpg", "zpg", "zpg", "imp", "imp", "imm", "acc", "imp", "abs", "abs", "abs", "imp",
       "imp", "izy", "imp", "imp", "imp", "zpx", "zpx", "imp", "imp", "aby", "imp", "imp", "imp", "abx", "abx", "imp",
       "imp", "izx", "imp", "imp", "imp", "zpg", "zpg", "imp", "imp", "imm", "acc", "imp", "abs", "abs", "abs", "imp",
       "imp", "izy", "imp", "imp", "imp", "zpx", "zpx", "imp", "imp", "aby", "imp", "imp", "imp", "abx", "abx", "imp",
       "imp", "izx", "imp", "imp", "imp", "zpg", "zpg", "imp", "imp", "imm", "acc", "imp", "ind", "abs", "abs", "imp",
       "imp", "izy", "imp", "imp", "imp", "zpx", "zpx", "imp", "imp", "aby", "imp", "imp", "imp", "abx", "abx", "imp",
       "imp", "izx", "imp", "imp", "zpg", "zpg", "zpg", "imp", "imp", "imp", "imp", "imp", "abs", "abs", "abs", "imp",
       "imp", "izy", "imp", "imp", "zpx", "zpx", "zpy", "imp", "imp", "aby", "imp", "imp", "imp", "abx", "imp", "imp",
       "imm", "izx", "imm", "imp", "zpg", "zpg", "zpg", "imp", "imp", "imm", "imp", "imp", "abs", "abs", "abs", "imp",
       "imp", "izy", "imp", "imp", "zpx", "zpx", "zpy", "imp", "imp", "aby", "imp", "imp", "abx", "abx", "aby", "imp",
       "imm", "izx", "imp", "imp", "zpg", "zpg", "zpg", "imp", "imp", "imm", "imp", "imp", "abs", "abs", "abs", "imp",
       "imp", "izy", "imp", "imp", "imp", "zpx", "zpx", "imp", "imp", "aby", "imp", "imp", "imp", "abx", "abx", "imp",
       "imm", "izx", "imp", "imp", "zpg", "zpg", "zpg", "imp", "imp", "imm", "imp", "imp", "abs", "abs", "abs", "imp",
       "imp", "izy", "imp", "imp", "imp", "zpx", "zpx", "imp", "imp", "aby", "imp", "imp", "imp", "abx", "abx", "imp" >>

\* opcode_cycles: the base cycle cost of each opcode byte
OpcodeCycles ==
    <<7, 6, 0, 0, 0, 3, 5, 0, 3, 2, 2, 0, 0, 4, 6, 0,
       2, 5, 0, 0, 0, 4, 6, 0, 2, 4, 0, 0, 0, 4, 7, 0,
       6, 6, 0, 0, 3, 3, 5, 0, 4, 2, 2, 0, 4, 4, 6, 0,
       2, 5, 0, 0, 0, 4, 6, 0, 2, 4, 0, 0, 0, 4, 7, 0,
       6, 6, 0, 0, 0, 3, 5, 0, 3, 2, 2, 0, 3, 4, 6, 0,
       2, 5, 0, 0, 0, 4, 6, 0, 2, 4, 0, 0, 0, 4, 7, 0,
       6, 6, 0, 0, 0, 3, 5, 0, 4, 2, 2, 0, 5, 4, 6, 0,
       2, 5, 0, 0, 0, 4, 6, 0, 2, 4, 0, 0, 0, 4, 7, 0,
       0, 6, 0, 0, 3, 3, 3, 0, 2, 0, 2, 0, 4, 4, 4, 0,
       2, 6, 0, 0, 4, 4, 4, 0, 2, 5, 2, 0, 0, 5, 0, 0,
       2, 6, 2, 0, 3, 3, 3, 0, 2, 2, 2, 0, 4, 4, 4, 0,
       2, 5, 0, 0, 4, 4, 4, 0, 2, 4, 2, 0, 4, 4, 4, 0,
       2, 6, 0, 0, 3, 3, 5, 0, 2, 2, 2, 0, 4, 4, 6, 0,
       2, 5, 0, 0, 0, 4, 6, 0, 2, 4, 0, 0, 0, 4, 7, 0,
       2, 6, 0, 0, 3, 3, 5, 0, 2, 2, 2, 0, 4, 4, 6, 0,
       2, 5, 0, 0, 0, 4, 6, 0, 2, 4, 0, 0, 0, 4, 7, 0 >>

\* opcode_table[opcode](cpu)
\* the handler of the table entry with mnemonic mn and addressing mode mode
Handler(mn, mode, m) ==
    CASE mn \in {"lda", "ldx", "ldy", "adc", "sbc", "cmp", "cpx", "cpy",
                 "and", "ora", "eor", "bit"} -> OpRead(mn, mode, m)
      [] mn \in {"sta", "stx", "sty"} -> OpStore(mn, mode, m)
      [] mn \in {"asl", "lsr", "rol", "ror", "inc", "dec"} -> OpRmw(mn, mode, m)
      [] mn \in {"bpl", "bmi", "bvc", "bvs", "bcc", "bcs", "bne", "beq"} ->
           OpBranch(mn, m)
      [] mn = "jmp" -> IF mode = "ind" THEN op_jmp_ind(m) ELSE op_jmp_abs(m)
      [] mn = "jsr" -> op_jsr(m)
      [] mn = "rts" -> op_rts(m)
      [] mn = "brk" -> op_brk(m)
      [] mn = "rti" -> op_rti(m)
      [] mn = "pha" -> op_pha(m)
      [] mn = "pla" -> op_pla(m)
      [] mn = "php" -> op_php(m)
      [] mn = "plp" -> op_plp(m)
      [] mn = "ill" -> op_ill(m)
      [] OTHER -> [m EXCEPT !.cpu = OpImplied(@, mn)]

\* opcode_table[opcode](cpu)
Dispatch(opcode, m) ==
    Handler(OpcodeMnemonic[opcode + 1], OpcodeMode[opcode + 1], m)

(***************************************************************************)
(* cpu6502.c                                                               *)
(***************************************************************************)
cpu6502_init ==
    [a |-> 0, x |-> 0, y |-> 0, sp |-> 0, pc |-> 0, cycles |-> 0,
     halted |-> FALSE, page_crossed |-> FALSE,
     status |-> BitOr(CPU_FLAG_U, CPU_FLAG_I)]

\* a variant that loads the power-on status: C28 does not hold of it
cpu6502_reset_Mut(m) ==
    LET lo == cpu_read(m, \hFFFC)
        hi == cpu_read(lo.m, \hFFFD)
    IN  [hi.m EXCEPT !.cpu.pc = BitOr(hi.val * 256, lo.val),
                     !.cpu.sp = \hFD,
                     !.cpu.status = BitOr(CPU_FLAG_I, CPU_FLAG_U),
                     !.cpu.halted = FALSE,
                     !.cpu.cycles = @ + 7]

cpu6502_reset(m) ==
    LET lo == cpu_read(m, \hFFFC)
        hi == cpu_read(lo.m, \hFFFD)
    IN  [hi.m EXCEPT !.cpu.pc = BitOr(hi.val * 256, lo.val),
                     !.cpu.sp = \hFD,
                     !.cpu.status = BitOr(BitOr(@, CPU_FLAG_I), CPU_FLAG_U),
                     !.cpu.halted = FALSE,
                     !.cpu.cycles = @ + 7]

cpu6502_step(m) ==
    IF m.cpu.halted THEN m
    ELSE The({ Dispatch(f.val, [f.m EXCEPT
                                    !.cpu.cycles = @ + OpcodeCycles[f.val + 1]]) :
               f \in {FetchByte([m EXCEPT !.cpu.page_crossed = FALSE])} })

\* the sequence cpu6502_irq and cpu6502_nmi share: push PC and status with
\* B = 0 and U = 1, set I, load PC from the vector, 7 cycles
\* a variant that charges no cycles: C29 does not hold of it
InterruptEntry_Mut(m, vector) ==
    The({ VectorEntry(m1, BitOr(BitAnd(m1.cpu.status, Not8(CPU_FLAG_B)),
                                CPU_FLAG_U), vector) :
          m1 \in {cpu_push16(m, m.cpu.pc)} })

InterruptEntry(m, vector) ==
    The({ [VectorEntry(m1, BitOr(BitAnd(m1.cpu.status, Not8(CPU_FLAG_B)),
                                 CPU_FLAG_U), vector)
               EXCEPT !.cpu.cycles = @ + 7] :
          m1 \in {cpu_push16(m, m.cpu.pc)} })

\* a variant that takes the interrupt whatever I is: C18 does not hold of it
cpu6502_irq_Mut(m) == InterruptEntry(m, \hFFFE)

cpu6502_irq(m) ==
    IF cpu_get_flag(m.cpu, CPU_FLAG_I) THEN m ELSE InterruptEntry(m, \hFFFE)

\* a variant that I masks as it masks IRQ: C26 does not hold of it
cpu6502_nmi_Mut(m) ==
    IF cpu_get_flag(m.cpu, CPU_FLAG_I) THEN m ELSE InterruptEntry(m, \hFFFA)

cpu6502_nmi(m) == InterruptEntry(m, \hFFFA)

(***************************************************************************)
(* chip8.c: the CHIP-8 interpreter                                         *)
(***************************************************************************)
fontset ==
    << \hF0, \h90, \h90, \h90, \hF0,  \h20, \h60, \h20, \h20, \h70,
       \hF0, \h10, \hF0, \h80, \hF0,  \hF0, \h10, \hF0, \h10, \hF0,
       \h90, \h90, \hF0, \h10, \h10,  \hF0, \h80, \hF0, \h10, \hF0,
       \hF0, \h80, \hF0, \h90, \hF0,  \hF0, \h10, \h20, \h40, \h40,
       \hF0, \h90, \hF0, \h90, \hF0,  \hF0, \h90, \hF0, \h10, \hF0,
       \hF0, \h90, \hF0, \h90, \h90,  \hE0, \h90, \hE0, \h90, \hE0,
       \hF0, \h80, \h80, \h80, \hF0,  \hE0, \h90, \hE0, \h90, \hE0,
       \hF0, \h80, \hF0, \h80, \hF0,  \hF0, \h80, \hF0, \h80, \h80 >>

\* chip8_init: memset 0, pc = CHIP8_PROGRAM_START, the font at memory[0..79]
chip8_init ==
    [memory |-> [k \in 0 .. 79 |-> fontset[k + 1]],
     V |-> [k \in 0 .. 15 |-> 0],
     I |-> 0,
     pc |-> \h200,
     display |-> Zeroed,
     stack |-> [k \in 0 .. 15 |-> 0],
     sp |-> 0,
     keypad |-> [k \in 0 .. 15 |-> 0],
     delay_timer |-> 0,
     sound_timer |-> 0,
     draw_flag |-> FALSE]

\* chip8_load_rom on a readable file of the bytes rom: the machine it leaves
\* and the value it returns
chip8_load_rom(c, rom) ==
    IF Len(rom) > 4096 - \h200 THEN [ok |-> FALSE, c |-> c]
    ELSE [ok |-> TRUE,
          c  |-> [c EXCEPT !.memory =
                      [k \in (DOMAIN @) \cup (\h200 .. (\h200 + Len(rom) - 1)) |->
                          IF k >= \h200 /\ k < \h200 + Len(rom)
                          THEN rom[k - \h200 + 1] ELSE @[k]]]]

\* the opcode chip8_cycle fetches
ChipOpcode(c) == Get(c.memory, c.pc) * 256 + Get(c.memory, c.pc + 1)

\* DXYN: the display cells the sprite toggles: those of the rows and columns
\* the two loops reach before their breaks whose sprite bit is set
SpritePixels(c, xpos, ypos, n) ==
    { (ypos + rc[1]) * 64 + xpos + rc[2] :
        rc \in { rc \in (0 .. (n - 1)) \X (0 .. 7) :
                   /\ ypos + rc[1] < 32
                   /\ xpos + rc[2] < 64
                   /\ Bit(Get(c.memory, BitAnd(c.I + rc[1], \hFFF)), 7 - rc[2]) = 1 } }

\* case 0xD000 of chip8_cycle
DrawSprite(c, x, y, n) ==
    LET hits == SpritePixels(c, c.V[x] % 64, c.V[y] % 32, n)
    IN  [c EXCEPT !.V[15] = IF \E idx \in hits : Get(c.display, idx) = 1
                            THEN 1 ELSE 0,
                  !.display = [idx \in (DOMAIN @) \cup hits |->
                                  IF idx \in hits THEN 1 - Get(@, idx) ELSE @[idx]],
                  !.draw_flag = TRUE]

\* case 0x8000 of chip8_cycle
ChipAlu(c, x, y, n) ==
    CASE n = 0 -> [c EXCEPT !.V[x] = c.V[y]]
      [] n = 1 -> [c EXCEPT !.V[x] = BitOr(@, c.V[y])]
      [] n = 2 -> [c EXCEPT !.V[x] = BitAnd(@, c.V[y])]
      [] n = 3 -> [c EXCEPT !.V[x] = BitXor(@, c.V[y])]
      [] n = 4 -> [c EXCEPT !.V[x] = (c.V[x] + c.V[y]) % 256,
                            !.V[15] = IF c.V[x] + c.V[y] > \hFF THEN 1 ELSE 0]
      [] n = 5 -> [c EXCEPT !.V[x] = U8(c.V[x] - c.V[y] + 256),
                            !.V[15] = IF c.V[x] >= c.V[y] THEN 1 ELSE 0]
      [] n = 6 -> [c EXCEPT !.V[x] = c.V[x] \div 2,
                            !.V[15] = c.V[x] % 2]
      [] n = 7 -> [c EXCEPT !.V[x] = U8(c.V[y] - c.V[x] + 256),
                            !.V[15] = IF c.V[y] >= c.V[x] THEN 1 ELSE 0]
      [] n = 14 -> [c EXCEPT !.V[x] = U8(c.V[x] * 2),
                             !.V[15] = c.V[x] \div 128]
      [] OTHER -> c

\* case 0xF000 of chip8_cycle
ChipMisc(c, x, nn) ==
    CASE nn = \h07 -> [c EXCEPT !.V[x] = c.delay_timer]
      [] nn = \h0A ->
            IF \E i \in 0 .. 15 : c.keypad[i] # 0
            THEN [c EXCEPT !.V[x] = CHOOSE i \in 0 .. 15 :
                                        /\ c.keypad[i] # 0
                                        /\ \A j \in 0 .. (i - 1) : c.keypad[j] = 0]
            ELSE [c EXCEPT !.pc = U16(@ + 65534)]
      [] nn = \h15 -> [c EXCEPT !.delay_timer = c.V[x]]
      [] nn = \h18 -> [c EXCEPT !.sound_timer = c.V[x]]
      [] nn = \h1E -> [c EXCEPT !.I = BitAnd(U16(@ + c.V[x]), \hFFF)]
      [] nn = \h29 -> [c EXCEPT !.I = BitAnd(c.V[x], \h0F) * 5]
      [] nn = \h33 ->
            [c EXCEPT !.memory =
                Put(Put(Put(@, BitAnd(c.I, \hFFF), c.V[x] \div 100),
                        BitAnd(c.I + 1, \hFFF), (c.V[x] \div 10) % 10),
                    BitAnd(c.I + 2, \hFFF), c.V[x] % 10)]
      [] nn = \h55 ->
            [c EXCEPT !.memory =
                [k \in (DOMAIN @) \cup {BitAnd(c.I + i, \hFFF) : i \in 0 .. x} |->
                    IF \E i \in 0 .. x : k = BitAnd(c.I + i, \hFFF)
                    THEN c.V[CHOOSE i \in 0 .. x : k = BitAnd(c.I + i, \hFFF)]
                    ELSE @[k]]]
      [] nn = \h65 ->
            [c EXCEPT !.V = [i \in 0 .. 15 |->
                                IF i <= x THEN Get(c.memory, BitAnd(c.I + i, \hFFF))
                                ELSE @[i]]]
      [] OTHER -> c

\* the switch of chip8_cycle; c is the machine after chip->pc += 2 and rnd
\* the value rand() returns in case 0xC000
ChipExecute(c, opcode, rnd) ==
    LET x   == (opcode \div 256) % 16
        y   == (opcode \div 16) % 16
        n   == opcode % 16
        nn  == opcode % 256
        nnn == opcode % 4096
        Skip(cond) == IF cond THEN [c EXCEPT !.pc = U16(@ + 2)] ELSE c
    IN  CASE opcode = \h00E0 -> [c EXCEPT !.display = Zeroed, !.draw_flag = TRUE]
          [] opcode = \h00EE ->
                IF c.sp = 0 THEN c
                ELSE [c EXCEPT !.sp = @ - 1, !.pc = c.stack[c.sp - 1]]
          [] opcode \div 4096 = 1 -> [c EXCEPT !.pc = nnn]
          [] opcode \div 4096 = 2 ->
                IF c.sp >= 16 THEN c
                ELSE [c EXCEPT !.stack[c.sp] = c.pc, !.sp = @ + 1, !.pc = nnn]
          [] opcode \div 4096 = 3 -> Skip(c.V[x] = nn)
          [] opcode \div 4096 = 4 -> Skip(c.V[x] # nn)
          [] opcode \div 4096 = 5 -> Skip(c.V[x] = c.V[y])
          [] opcode \div 4096 = 6 -> [c EXCEPT !.V[x] = nn]
          [] opcode \div 4096 = 7 -> [c EXCEPT !.V[x] = U8(@ + nn)]
          [] opcode \div 4096 = 8 -> ChipAlu(c, x, y, n)
          [] opcode \div 4096 = 9 -> Skip(c.V[x] # c.V[y])
          [] opcode \div 4096 = 10 -> [c EXCEPT !.I = nnn]
          [] opcode \div 4096 = 11 -> [c EXCEPT !.pc = nnn + c.V[0]]
          [] opcode \div 4096 = 12 -> [c EXCEPT !.V[x] = BitAnd(BitAnd(rnd, \hFF), nn)]
          [] opcode \div 4096 = 13 -> DrawSprite(c, x, y, n)
          [] opcode \div 4096 = 14 /\ nn = \h9E ->
                Skip(c.keypad[BitAnd(c.V[x], \h0F)] # 0)
          [] opcode \div 4096 = 14 /\ nn = \hA1 ->
                Skip(c.keypad[BitAnd(c.V[x], \h0F)] = 0)
          [] opcode \div 4096 = 15 -> ChipMisc(c, x, nn)
          [] OTHER -> c

chip8_cycle(c, rnd) ==
    IF c.pc > 4096 - 2 THEN c
    ELSE ChipExecute([c EXCEPT !.pc = U16(@ + 2)], ChipOpcode(c), rnd)

chip8_tick_timers(c) ==
    [c EXCEPT !.delay_timer = IF @ > 0 THEN @ - 1 ELSE @,
              !.sound_timer = IF @ > 0 THEN @ - 1 ELSE @]

(***************************************************************************)
(* The machine record of the current state, and the state it leaves.       *)
(***************************************************************************)
M ==
    [bus |-> bus, cpu |-> cpu, ram |-> ram, ppu |-> ppu, cart |-> cart,
     controller |-> controller, controller_shift |-> controller_shift,
     controller_strobe |-> controller_strobe,
     dma_pending |-> dma_pending, dma_page |-> dma_page]

Commit(m) ==
    /\ bus' = m.bus
    /\ cpu' = m.cpu
    /\ ram' = m.ram
    /\ ppu' = m.ppu
    /\ cart' = m.cart
    /\ controller' = m.controller
    /\ controller_shift' = m.controller_shift
    /\ controller_strobe' = m.controller_strobe
    /\ dma_pending' = m.dma_pending
    /\ dma_page' = m.dma_page

\* the machine is m (for initial states)
Holds(m) ==
    /\ bus = m.bus
    /\ cpu = m.cpu
    /\ ram = m.ram
    /\ ppu = m.ppu
    /\ cart = m.cart
    /\ controller = m.controller
    /\ controller_shift = m.controller_shift
    /\ controller_strobe = m.controller_strobe
    /\ dma_pending = m.dma_pending
    /\ dma_page = m.dma_page

FrameVars == << fpc, start_frame, prev, tick_i, tick_n, in_dma >>
NmiVars   == << nmi_triggered, nmi_count, nmi_entries >>
CtlVars   == << latched, nreads >>

\* the variables outside the machine record as a run starts
Started(pos) ==
    /\ fpc = pos
    /\ start_frame = 0
    /\ prev = 0
    /\ tick_i = 0
    /\ tick_n = 0
    /\ in_dma = FALSE
    /\ nmi_triggered = FALSE
    /\ nmi_count = Zeroed
    /\ nmi_entries = 0
    /\ hist = << >>
    /\ ret = 0
    /\ latched = << >>
    /\ nreads = [port \in 0 .. 1 |-> 0]
    /\ chip = chip8_init

(***************************************************************************)
(* cartridge.c / nes.c: a loaded NROM cartridge and nes_init               *)
(***************************************************************************)
\* PRG offsets of the interrupt handlers of the test images, each one RTI
NmiHandler == \h7F00
IrqHandler == \h7F10

\* the vectors and handlers of a 32 KiB PRG image: reset to $8000, NMI to
\* $FF00, IRQ/BRK to $FF10
Vectors ==
    [k \in {NmiHandler, IrqHandler, \h7FFA, \h7FFB, \h7FFC, \h7FFD, \h7FFE, \h7FFF} |->
        CASE k = NmiHandler -> \h40
          [] k = IrqHandler -> \h40
          [] k = \h7FFA -> \h00
          [] k = \h7FFB -> \hFF
          [] k = \h7FFC -> \h00
          [] k = \h7FFD -> \h80
          [] k = \h7FFE -> \h10
          [] k = \h7FFF -> \hFF]

\* what cartridge_load leaves for an image of two PRG banks and CHR RAM
Cartridge(nops, code) ==
    [prg_banks |-> 2, chr_banks |-> 0, mirror |-> "MIRROR_HORIZONTAL",
     nops |-> nops, code |-> code, hi |-> Vectors,
     chr_rom |-> Zeroed, chr_ram |-> Zeroed]

\* nes_init: memset 0, cartridge_load, ppu_init, cpu6502_init, cpu6502_reset
nes_init(c) ==
    cpu6502_reset(
        [bus |-> "nes", cpu |-> cpu6502_init, ram |-> Zeroed, ppu |-> ppu_init,
         cart |-> c,
         controller |-> [port \in 0 .. 1 |-> 0],
         controller_shift |-> [port \in 0 .. 1 |-> 0],
         controller_strobe |-> FALSE,
         dma_pending |-> FALSE, dma_page |-> 0])

(***************************************************************************)
(* The controller ports: nes_set_controller and the bus accesses of $4016  *)
(* and $4017, called directly.                                             *)
(***************************************************************************)
\* button bytes nes_set_controller is called with
Buttons == {\h00, \hA5, \h5A}

InitCtl ==
    /\ Holds(nes_init(Cartridge(0, << >>)))
    /\ Started("idle")

\* nes_set_controller(nes, port, buttons)
SetController ==
    \E port \in 0 .. 1, buttons \in Buttons :
        /\ Commit(nes_set_controller(M, port, buttons))
        /\ UNCHANGED << chip, FrameVars, NmiVars, CtlVars, hist, ret >>

\* nes_bus_write(nes, 0x4016, val)
CtlWrite ==
    \E val \in {\h00, \h01, \h02, \h03} :
        LET falling == controller_strobe /\ BitAnd(val, \h01) = 0
        IN  /\ Commit(nes_bus_write(M, \h4016, val))
            /\ latched' = IF falling THEN << controller[0], controller[1] >> ELSE latched
            /\ nreads' = IF falling THEN [port \in 0 .. 1 |-> 0] ELSE nreads
            /\ UNCHANGED << chip, FrameVars, NmiVars, hist, ret >>

\* nes_bus_read(nes, 0x4016 + port)
CtlRead ==
    \E port \in 0 .. 1 :
        LET r == nes_bus_read(M, \h4016 + port)
        IN  /\ nreads[port] < MaxReads
            /\ Commit(r.m)
            /\ ret' = r.val
            /\ nreads' = [nreads EXCEPT ![port] = @ + 1]
            /\ UNCHANGED << chip, FrameVars, NmiVars, hist, latched >>

NextCtl == SetController \/ CtlWrite \/ CtlRead

SpecCtl == InitCtl /\ [][NextCtl]_vars

\* the step is a read of controller port
IsCtlRead(port) == nreads'[port] = nreads[port] + 1

\* C9: after a strobe, the k-th read (k = 0..7) of $4016 / $4017 returns bit k
\* of the byte controller 1 / controller 2 held at the falling edge, whatever
\* nes_set_controller did since, and a read of one port leaves the other
\* port's shift register alone.
C9_SerialOrder ==
    [][\A port \in 0 .. 1 :
          IsCtlRead(port) =>
              /\ (Len(latched) = 2 /\ nreads[port] <= 7) =>
                     ret' = Bit(latched[port + 1], nreads[port])
              /\ controller_shift'[1 - port] = controller_shift[1 - port]]_vars

\* C9 witness: all eight bits of controller 1 have been read after a strobe and
\* a later nes_set_controller call changed the byte; the last read returned
\* Right = 1 of the latched byte, the current byte has Right = 0
C9_Witness ==
    /\ Len(latched) = 2
    /\ nreads[0] = 8
    /\ nreads[1] >= 1
    /\ latched[1] = \hA5
    /\ controller[0] = \h5A
    /\ ret = 1

\* C10 as stated: every read of $4016 made while the strobe is high returns
\* the current A-button bit of controller 1.
C10_ContinuousLatch ==
    [][(IsCtlRead(0) /\ controller_strobe) => ret' = Bit(controller[0], 0)]_vars

(***************************************************************************)
(* The PPU registers: ppu_cpu_write, ppu_cpu_read and ppu_step called      *)
(* directly, in any order.                                                 *)
(***************************************************************************)
\* ticks ppu_step has processed since power-on: 341 cycles x 262 scanlines
\* per frame, counted from scanline -1 cycle 0
TickIndex(p) == p.frame * 89342 + (p.scanline + 1) * 341 + p.cycle

\* what a call recorded in hist saw as it was made
Snapshot ==
    [cycles |-> cpu.cycles, entries |-> nmi_entries, tick |-> TickIndex(ppu),
     nmi_output |-> ppu.nmi_output, nmi_occurred |-> ppu.nmi_occurred,
     w |-> ppu.w, cpu |-> cpu]

Call(kind, addr, val) ==
    [kind |-> kind, addr |-> addr, val |-> val, pre |-> Snapshot]

\* PPU states the register accesses start from: power-on; the tick before
\* VBlank starts; the head of the next frame's pre-render line, VBlank flag
\* still up; scanline 1 just rendered with sprite 0 over an opaque background
PpuStates ==
    { ppu_init,
      [ppu_init EXCEPT !.scanline = 241, !.cycle = 0],
      [ppu_init EXCEPT !.frame = 1, !.status = \h80, !.nmi_occurred = TRUE],
      [ppu_init EXCEPT !.scanline = 1, !.cycle = 1, !.mask = \h1E,
                       !.status = \h40, !.v = \h2000] }

\* the CHR RAM pattern under the fourth of these: tile 0, plane 0, all rows set
ChrOf(p) ==
    IF p.mask = 0 THEN Zeroed ELSE [k \in 0 .. 7 |-> \hFF]

InitPpu ==
    \E p \in PpuStates :
        LET m0 == nes_init(Cartridge(0, << >>))
        IN  /\ Holds([m0 EXCEPT !.ppu = p, !.cart.chr_ram = ChrOf(p)])
            /\ fpc = "idle"
            /\ start_frame = 0
            /\ prev = 0
            /\ tick_i = 0
            /\ tick_n = MaxPpuTicks
            /\ in_dma = FALSE
            /\ nmi_triggered = FALSE
            /\ nmi_count = Zeroed
            /\ nmi_entries = 0
            /\ hist = << >>
            /\ ret = 0
            /\ latched = << >>
            /\ nreads = [port \in 0 .. 1 |-> 0]
            /\ chip = chip8_init

\* the register writes explored
RegWrites == { << 0, \h80 >>, << 5, \h7D >>, << 5, \h2B >>, << 6, \h21 >> }

\* ppu_cpu_write(ppu, reg, val)
RegWrite ==
    \E rv \in RegWrites :
        /\ Len(hist) < MaxRegOps
        /\ Commit(ppu_cpu_write(M, rv[1], rv[2]))
        /\ hist' = Append(hist, Call("write", rv[1], rv[2]))
        /\ UNCHANGED << chip, FrameVars, NmiVars, CtlVars, ret >>

\* ppu_cpu_read(ppu, reg)
RegRead ==
    \E reg \in {2} :
        LET r == ppu_cpu_read(M, reg)
        IN  /\ Len(hist) < MaxRegOps
            /\ Commit(r.m)
            /\ ret' = r.val
            /\ hist' = Append(hist, Call("read", reg, r.val))
            /\ UNCHANGED << chip, FrameVars, NmiVars, CtlVars >>

\* ppu_step(ppu), from a caller that ignores the NMI signal
PpuStep ==
    LET r == ppu_step(M)
    IN  /\ tick_i < tick_n
        /\ Commit(r.m)
        /\ tick_i' = tick_i + 1
        /\ nmi_triggered' = r.nmi
        /\ UNCHANGED << chip, fpc, start_frame, prev, tick_n, in_dma, nmi_count,
                        nmi_entries, CtlVars, hist, ret >>

NextPpu == RegWrite \/ RegRead \/ PpuStep

SpecPpu == InitPpu /\ [][NextPpu]_vars

\* the step is a call recorded in hist, of this kind on this address
IsCall(kind, addr) ==
    /\ Len(hist') = Len(hist) + 1
    /\ hist'[Len(hist')].kind = kind
    /\ hist'[Len(hist')].addr = addr

\* no tick from index a up to index b - 1 is the one that starts VBlank
NoVBlankStart(a, b) == \A t \in a .. (b - 1) : t % 89342 # 82523

\* C5 as stated: a read of $2002 returns bits 5-6 of status, bits 0-4 zero,
\* bit 7 equal to nmi_occurred as it was before the read, and clears
\* nmi_occurred; the second of two reads with no VBlank start between them
\* returns bit 7 = 0.
C5_StatusRead ==
    [][IsCall("read", 2) =>
           /\ BitAnd(ret', \h60) = BitAnd(ppu.status, \h60)
           /\ BitAnd(ret', \h1F) = 0
           /\ Bit(ret', 7) = (IF ppu.nmi_occurred THEN 1 ELSE 0)
           /\ ~ppu'.nmi_occurred
           /\ (\E i \in 1 .. Len(hist) :
                   /\ hist[i].kind = "read"
                   /\ hist[i].addr = 2
                   /\ NoVBlankStart(hist[i].pre.tick, TickIndex(ppu)))
              => Bit(ret', 7) = 0]_vars

\* C7: every write of $2005 or $2006 flips w, a read of $2002 sets w to
\* false, no other register access and no PPU tick changes w; a $2005 write
\* that follows a $2002 read loads coarse X and fine_x and a $2006 write that
\* follows one loads the high byte of t, both as first writes.
C7_WriteToggle ==
    [][/\ (IsCall("write", 5) \/ IsCall("write", 6)) => ppu'.w = ~ppu.w
       /\ IsCall("read", 2) => ppu'.w = FALSE
       /\ ~(IsCall("write", 5) \/ IsCall("write", 6) \/ IsCall("read", 2))
              => ppu'.w = ppu.w
       /\ (/\ hist # << >>
           /\ hist[Len(hist)].kind = "read"
           /\ hist[Len(hist)].addr = 2
           /\ IsCall("write", 5))
              => /\ ppu'.w
                 /\ ppu'.fine_x = hist'[Len(hist')].val % 8
                 /\ ppu'.t % 32 = hist'[Len(hist')].val \div 8
                 /\ ppu'.t \div 32 = ppu.t \div 32
       /\ (/\ hist # << >>
           /\ hist[Len(hist)].kind = "read"
           /\ hist[Len(hist)].addr = 2
           /\ IsCall("write", 6))
              => /\ ppu'.w
                 /\ (ppu'.t \div 256) = hist'[Len(hist')].val % 64
                 /\ ppu'.t % 256 = ppu.t % 256
                 /\ ppu'.v = ppu.v]_vars

\* C7 witness: two $2005 writes, a $2002 read, then a third $2005 write whose
\* value differs from the first one's: coarse X and fine_x are the third's
C7_Witness ==
    /\ Len(hist) = 4
    /\ hist[1].kind = "write" /\ hist[1].addr = 5 /\ hist[1].val = \h7D
    /\ hist[2].kind = "write" /\ hist[2].addr = 5
    /\ hist[3].kind = "read" /\ hist[3].addr = 2
    /\ hist[4].kind = "write" /\ hist[4].addr = 5 /\ hist[4].val = \h2B
    /\ ppu.fine_x = 3
    /\ ppu.t % 32 = 5
    /\ ppu.w

(***************************************************************************)
(* nes.c: nes_step_frame, one step per loop test, per loop body head and   *)
(* per PPU tick of the inner for loops.                                    *)
(***************************************************************************)
\* the snippets the programs are made of: NOP; LDA #$80, STA $2000;
\* LDA $2002; LDA #$80, STA $4014; LDA #$20, STA $4014; an illegal opcode
NesSnippets ==
    { << \hEA >>,
      << \hA9, \h80, \h8D, \h00, \h20 >>,
      << \hAD, \h02, \h20 >>,
      << \hA9, \h80, \h8D, \h14, \h40 >>,
      << \hA9, \h20, \h8D, \h14, \h40 >>,
      << \h02 >> }

\* lengths of the NOP sled that precedes the program: none; DMA's ticks reach
\* over VBlank start; just before VBlank start; inside VBlank; just before
\* the frame ends; just before VBlank start of the second frame
NopPrefixes == {0, 13550, 13750, 14686, 14888, 28640}

RECURSIVE Concat(_, _)
Concat(ss, k) == IF k > Len(ss) THEN << >> ELSE ss[k] \o Concat(ss, k + 1)

\* the program: the snippets, then JMP to itself
Program(ss, nops) ==
    LET body == Concat(ss, 1)
        at   == \h8000 + nops + Len(body)
    IN  body \o << \h4C, at % 256, at \div 256 >>

\* the machine after nes_init and the n NOPs of the sled, each one a loop
\* iteration of 2 CPU cycles and 6 PPU ticks with NMI output off
AfterNops(m, n) ==
    LET t   == 6 * n
        off == t % 89342
        fr  == t \div 89342
        vbl == off > 82523 \/ (fr >= 1 /\ off <= 1)
    IN  [m EXCEPT !.cpu.pc = \h8000 + n,
                  !.cpu.cycles = @ + 2 * n,
                  !.ppu.frame = fr,
                  !.ppu.scanline = (off \div 341) - 1,
                  !.ppu.cycle = off % 341,
                  !.ppu.status = IF vbl THEN \h80 ELSE 0,
                  !.ppu.nmi_occurred = vbl]

InitNes ==
    \E n \in NopPrefixes, ss \in [1 .. ProgLen -> NesSnippets] :
        /\ Holds(AfterNops(nes_init(Cartridge(n, Program(ss, n))), n))
        /\ fpc = IF n = 0 THEN "idle" ELSE "test"
        /\ start_frame = IF n = 0 THEN 0 ELSE (6 * n - 6) \div 89342
        /\ prev = IF n = 0 THEN 0 ELSE 7 + 2 * n - 2
        /\ tick_i = IF n = 0 THEN 0 ELSE 6
        /\ tick_n = IF n = 0 THEN 0 ELSE 6
        /\ in_dma = FALSE
        /\ nmi_triggered = FALSE
        /\ nmi_count = Zeroed
        /\ nmi_entries = 0
        /\ hist = << >>
        /\ ret = 0
        /\ latched = << >>
        /\ nreads = [port \in 0 .. 1 |-> 0]
        /\ chip = chip8_init

\* the caller calls nes_step_frame: start_frame = nes->ppu.frame
NesStepFrame ==
    /\ fpc = "idle"
    /\ Len(hist) < MaxInstr
    /\ start_frame' = ppu.frame
    /\ fpc' = "test"
    /\ hist' = Append(hist, Call("frame", 0, 0))
    /\ UNCHANGED << chip, bus, cpu, ram, ppu, cart, controller, controller_shift,
                    controller_strobe, dma_pending, dma_page, prev, tick_i,
                    tick_n, in_dma, NmiVars, CtlVars, ret >>

\* while (nes->ppu.frame == start_frame): the test holds
LoopTest ==
    /\ fpc = "test"
    /\ ppu.frame = start_frame
    /\ fpc' = "body"
    /\ UNCHANGED << chip, bus, cpu, ram, ppu, cart, controller, controller_shift,
                    controller_strobe, dma_pending, dma_page, start_frame,
                    prev, tick_i, tick_n, in_dma, NmiVars, CtlVars, hist, ret >>

\* the test fails: nes_step_frame returns
FrameReturn ==
    /\ fpc = "test"
    /\ ppu.frame # start_frame
    /\ fpc' = "idle"
    /\ UNCHANGED << chip, bus, cpu, ram, ppu, cart, controller, controller_shift,
                    controller_strobe, dma_pending, dma_page, start_frame,
                    prev, tick_i, tick_n, in_dma, NmiVars, CtlVars, hist, ret >>

\* a variant that reads every byte from the start of the page: C8 does not
\* hold of it
DmaSource_Mut(page, i) == page * 256

\* the CPU address the DMA reads its i-th byte from
DmaSource(page, i) == BitOr(page * 256, i)

\* the loop body with dma_pending set: it enters the copy loop
DmaIteration ==
    /\ fpc = "body"
    /\ dma_pending
    /\ Len(hist) < MaxInstr
    /\ tick_i' = 0
    /\ tick_n' = 256
    /\ in_dma' = TRUE
    /\ fpc' = "copy"
    /\ hist' = Append(hist, Call("dma", dma_page, 0))
    /\ UNCHANGED << chip, bus, cpu, ram, ppu, cart, controller, controller_shift,
                    controller_strobe, dma_pending, dma_page, start_frame,
                    prev, NmiVars, CtlVars, ret >>

\* one iteration of the copy loop: nes->ppu.oam[i] = nes_bus_read(nes, src)
DmaCopy ==
    LET r == nes_bus_read(M, DmaSource(dma_page, tick_i))
    IN  /\ fpc = "copy"
        /\ tick_i < tick_n
        /\ Commit([r.m EXCEPT !.ppu.oam = Put(@, tick_i, r.val)])
        /\ tick_i' = tick_i + 1
        /\ UNCHANGED << chip, fpc, start_frame, prev, tick_n, in_dma, NmiVars,
                        CtlVars, hist, ret >>

\* the copy loop ends: nes->dma_pending = false, then the loop of 1542 ticks
DmaCopyEnd ==
    /\ fpc = "copy"
    /\ ~(tick_i < tick_n)
    /\ dma_pending' = FALSE
    /\ tick_i' = 0
    /\ tick_n' = 1542
    /\ fpc' = "ticks"
    /\ UNCHANGED << chip, bus, cpu, ram, ppu, cart, controller, controller_shift,
                    controller_strobe, dma_page, start_frame, prev, in_dma,
                    NmiVars, CtlVars, hist, ret >>

\* the loop body otherwise: prev, cpu6502_step, elapsed.  A call of
\* cpu6502_step on a halted CPU returns at once and is not recorded in hist.
CpuIteration ==
    LET m1 == cpu6502_step(M)
    IN  /\ fpc = "body"
        /\ ~dma_pending
        /\ cpu.halted \/ Len(hist) < MaxInstr
        /\ prev' = cpu.cycles
        /\ Commit(m1)
        /\ tick_i' = 0
        /\ tick_n' = (m1.cpu.cycles - cpu.cycles) * 3
        /\ in_dma' = FALSE
        /\ fpc' = "ticks"
        /\ hist' = IF cpu.halted THEN hist
                   ELSE Append(hist, Call("step", cpu.pc, cpu_read(M, cpu.pc).val))
        /\ UNCHANGED << chip, start_frame, NmiVars, CtlVars, ret >>

\* one iteration of either for loop: if (ppu_step(&nes->ppu)) cpu6502_nmi(&nes->cpu)
FrameTick ==
    LET r  == ppu_step(M)
        m1 == IF r.nmi THEN cpu6502_nmi(r.m) ELSE r.m
    IN  /\ fpc = "ticks"
        /\ tick_i < tick_n
        /\ Commit(m1)
        /\ tick_i' = tick_i + 1
        /\ nmi_triggered' = r.nmi
        /\ nmi_count' = IF r.nmi THEN Put(nmi_count, ppu.frame, Get(nmi_count, ppu.frame) + 1)
                        ELSE nmi_count
        /\ nmi_entries' = IF r.nmi THEN nmi_entries + 1 ELSE nmi_entries
        /\ UNCHANGED << chip, fpc, start_frame, prev, tick_n, in_dma, CtlVars, hist, ret >>

\* the for loop ends; after the DMA's loop, nes->cpu.cycles += 514
IterEnd ==
    /\ fpc = "ticks"
    /\ ~(tick_i < tick_n)
    /\ Commit(IF in_dma THEN [M EXCEPT !.cpu.cycles = @ + 514] ELSE M)
    /\ fpc' = "test"
    /\ UNCHANGED << chip, start_frame, prev, tick_i, tick_n, in_dma, NmiVars,
                    CtlVars, hist, ret >>

\* the steps nes_step_frame takes once it has been called
FrameLoop ==
    \/ LoopTest
    \/ FrameReturn
    \/ DmaIteration
    \/ DmaCopy
    \/ DmaCopyEnd
    \/ CpuIteration
    \/ FrameTick
    \/ IterEnd

NextNes == NesStepFrame \/ FrameLoop

SpecNes == InitNes /\ [][NextNes]_vars

\* some step of FrameLoop is enabled: the guards of its disjuncts
LoopEnabled ==
    \/ fpc \in {"test", "copy", "ticks"}
    \/ fpc = "body" /\ dma_pending /\ Len(hist) < MaxInstr
    \/ fpc = "body" /\ ~dma_pending /\ (cpu.halted \/ Len(hist) < MaxInstr)

\* what every step of FrameLoop does to fpc and tick_i, and no other step
\* of NextNes does: it moves on in the code of nes_step_frame
LoopStep ==
    /\ LoopEnabled
    /\ fpc' \in {"idle", "test", "body", "copy", "ticks"}
    /\ tick_i' \in {0, tick_i, tick_i + 1}

\* nes_step_frame is sequential code: once called it keeps taking its steps
SpecNesFair == InitNes /\ [][NextNes]_vars /\ WF_<< fpc, tick_i >>(LoopStep)

\* the step is a call recorded in hist, of this kind
IsKind(kind) ==
    /\ Len(hist') = Len(hist) + 1
    /\ hist'[Len(hist')].kind = kind

\* the step is one iteration of an inner for loop of PPU ticks
IsTick == fpc = "ticks" /\ tick_i' = tick_i + 1

\* the step is one iteration of the DMA's copy loop
IsCopy == fpc = "copy" /\ tick_i' = tick_i + 1

\* the last call recorded in hist
LastCall == hist[Len(hist)]

\* C2 as stated: a call of nes_step_frame whose CPU is halted returns.
C2_HaltReturns == (cpu.halted /\ fpc # "idle") ~> (fpc = "idle")

\* C3: nes_step_frame takes start_frame from the frame counter at entry, and
\* whenever it returns the frame counter equals start_frame + 1.
C3_FrameAdvancesByOne ==
    [][/\ IsKind("frame") => start_frame' = ppu.frame
       /\ (fpc = "test" /\ fpc' = "idle") => ppu.frame = start_frame + 1]_vars

\* C3 witness: nes_step_frame has returned from a call in which CPU
\* instructions and an OAM DMA ran
C3_Witness ==
    /\ fpc = "idle"
    /\ ppu.frame = start_frame + 1
    /\ \E i \in 1 .. Len(hist) : hist[i].kind = "dma"
    /\ \E i \in 1 .. Len(hist) : hist[i].kind = "step"

\* C4: a PPU tick returns the fire signal iff it is the tick processed at
\* scanline 241 cycle 1 and nmi_output is set; that tick sets nmi_occurred
\* and status bit 7; no frame sees a second fire; a fire runs cpu6502_nmi
\* once in the same loop iteration (PC and status pushed with B = 0 and
\* U = 1, I set, PC from $FFFA, 7 cycles), a tick without fire leaves the CPU
\* alone, and every fire has been served when a CPU instruction executes.
C4_NmiOnVBlank ==
    [][/\ IsTick =>
              /\ nmi_triggered' <=>
                     (ppu.scanline = 241 /\ ppu.cycle = 1 /\ ppu.nmi_output)
              /\ (ppu.scanline = 241 /\ ppu.cycle = 1) =>
                     (ppu'.nmi_occurred /\ Bit(ppu'.status, 7) = 1)
              /\ nmi_triggered' =>
                     /\ Get(nmi_count, ppu.frame) = 0
                     /\ nmi_entries' = nmi_entries + 1
                     /\ cpu'.pc = \hFF00
                     /\ cpu'.sp = U8(cpu.sp + 253)
                     /\ cpu'.cycles = cpu.cycles + 7
                     /\ Bit(cpu'.status, 2) = 1
                     /\ Get(ram', \h0100 + cpu.sp) = cpu.pc \div 256
                     /\ Get(ram', \h0100 + U8(cpu.sp + 255)) = cpu.pc % 256
                     /\ Get(ram', \h0100 + U8(cpu.sp + 254)) =
                            BitOr(BitAnd(cpu.status, \hEF), \h20)
              /\ ~nmi_triggered' => (cpu' = cpu /\ nmi_entries' = nmi_entries)
       /\ IsKind("step") =>
              /\ \A f \in DOMAIN nmi_count : nmi_count[f] = 1
              /\ nmi_entries = Cardinality(DOMAIN nmi_count)]_vars

\* C4 witness: the tick at scanline 241 cycle 1 has just fired and the CPU is
\* at the NMI handler
C4_Witness ==
    /\ nmi_triggered
    /\ nmi_entries = 1
    /\ ppu.scanline = 241
    /\ ppu.cycle = 2
    /\ ppu.nmi_occurred
    /\ cpu.pc = \hFF00

\* C6 as stated: when an instruction has raised nmi_output from 0 to 1 while
\* nmi_occurred was set, cpu6502_nmi has run by the end of that instruction's
\* loop iteration.
C6_NmiReasserted ==
    (/\ fpc = "test"
     /\ hist # << >>
     /\ LastCall.kind = "step"
     /\ ~LastCall.pre.nmi_output
     /\ LastCall.pre.nmi_occurred
     /\ ppu.nmi_output)
        => nmi_entries > LastCall.pre.entries

\* what C8 says of the copy: no CPU instruction executes while the latch is
\* set or the copy runs; the i-th iteration stores the byte read from
\* (P << 8) | i into OAM[i] and leaves the rest of OAM alone, i = 0..255 in
\* order; the latch is cleared after the 256th; the tick loop that follows
\* runs exactly 1542 PPU ticks
DmaCopies ==
    /\ (dma_pending \/ fpc = "copy") => ~IsKind("step")
    /\ IsKind("dma") => (tick_i' = 0 /\ ppu' = ppu)
    /\ IsCopy =>
           /\ Get(ppu'.oam, tick_i) =
                  nes_bus_read(M, BitOr(dma_page * 256, tick_i)).val
           /\ \A j \in 0 .. 255 : j # tick_i => Get(ppu'.oam, j) = Get(ppu.oam, j)
           /\ dma_pending'
    /\ (fpc = "copy" /\ fpc' = "ticks") => (tick_i = 256 /\ ~dma_pending')
    /\ (fpc = "ticks" /\ in_dma /\ fpc' = "test") =>
           TickIndex(ppu) = LastCall.pre.tick + 1542

\* C8 as stated: the copy as above, and the DMA step increases the CPU cycle
\* count by exactly 514.
C8_DmaExactly514 ==
    [][/\ DmaCopies
       /\ (fpc = "ticks" /\ in_dma /\ fpc' = "test") =>
              cpu'.cycles = LastCall.pre.cycles + 514]_vars

\* C8 amended: the copy as above, and the DMA step increases the CPU cycle
\* count by 514 plus the 7 cycles of the NMI entry when VBlank starts with
\* NMI output on during its 1542 ticks, which happens at most once.
C8_Dma514PlusNmi ==
    [][/\ DmaCopies
       /\ (fpc = "ticks" /\ in_dma /\ fpc' = "test") =>
              /\ nmi_entries - LastCall.pre.entries \in {0, 1}
              /\ cpu'.cycles = LastCall.pre.cycles + 514
                                   + 7 * (nmi_entries - LastCall.pre.entries)]_vars

\* C8 witness: a DMA step from page $80 has ended, VBlank started with NMI
\* output on during its ticks, OAM holds the head of the PRG image
C8_Witness ==
    /\ fpc = "test"
    /\ in_dma
    /\ ~dma_pending
    /\ LastCall.kind = "dma"
    /\ LastCall.addr = \h80
    /\ nmi_entries = LastCall.pre.entries + 1
    /\ cpu.cycles = LastCall.pre.cycles + 521
    /\ \A i \in 0 .. 255 : Get(ppu.oam, i) = \hEA

(***************************************************************************)
(* The CPU on the flat 64 KiB bus of bus.c: cpu6502_init, then any         *)
(* sequence of cpu6502_reset, cpu6502_step, cpu6502_irq and cpu6502_nmi.   *)
(***************************************************************************)
\* the snippets the programs are made of: LDA #$FF, PHA, PLP; PHP, PLP;
\* BRK and its padding byte; PLP; RTI; CLI
CpuSnippets ==
    { << \hA9, \hFF, \h48, \h28 >>,
      << \h08, \h28 >>,
      << \h00, \hEA >>,
      << \h28 >>,
      << \h40 >>,
      << \h58 >> }

\* the bytes the stack page holds before the program has pushed anything
StackJunk == {\h00, \hFF}

\* bus_flat_t.ram: the program at $8000, RTI at $9000 and at $9010, the
\* vectors (NMI $9000, reset $8000, IRQ/BRK $9010), junk where the first
\* pulls after a reset read
FlatRam(code, junk) ==
    [k \in (\h8000 .. (\h8000 + Len(code) - 1))
           \cup {\h9000, \h9010, \h01FE, \h01FF, \h0100}
           \cup (\hFFFA .. \hFFFF) |->
        IF k >= \h8000 /\ k < \h8000 + Len(code) THEN code[k - \h8000 + 1]
        ELSE IF k \in {\h9000, \h9010} THEN \h40
        ELSE IF k \in {\h01FE, \h01FF, \h0100} THEN junk
        ELSE IF k = \hFFFA THEN \h00
        ELSE IF k = \hFFFB THEN \h90
        ELSE IF k = \hFFFC THEN \h00
        ELSE IF k = \hFFFD THEN \h80
        ELSE IF k = \hFFFE THEN \h10
        ELSE \h90]

\* bus_flat_init and cpu6502_init; the NES fields of the machine record are
\* not used on this bus
InitCpu ==
    \E ss \in [1 .. ProgLen -> CpuSnippets], junk \in StackJunk :
        /\ Holds([nes_init(Cartridge(0, << >>)) EXCEPT
                      !.bus = "flat",
                      !.cpu = cpu6502_init,
                      !.ram = FlatRam(Concat(ss, 1), junk)])
        /\ Started("idle")

\* cpu6502_reset(cpu)
CpuReset ==
    /\ Len(hist) < MaxCalls
    /\ Commit(cpu6502_reset(M))
    /\ hist' = Append(hist, Call("reset", cpu.pc, 0))
    /\ UNCHANGED << chip, FrameVars, NmiVars, CtlVars, ret >>

\* cpu6502_step(cpu); a call on a halted CPU returns at once
CpuStep ==
    /\ Len(hist) < MaxCalls
    /\ Commit(cpu6502_step(M))
    /\ hist' = IF cpu.halted THEN hist
               ELSE Append(hist, Call("step", cpu.pc, cpu_read(M, cpu.pc).val))
    /\ UNCHANGED << chip, FrameVars, NmiVars, CtlVars, ret >>

\* cpu6502_irq(cpu)
CpuIrq ==
    /\ Len(hist) < MaxCalls
    /\ Commit(cpu6502_irq(M))
    /\ hist' = Append(hist, Call("irq", cpu.pc, 0))
    /\ UNCHANGED << chip, FrameVars, NmiVars, CtlVars, ret >>

\* cpu6502_nmi(cpu)
CpuNmi ==
    /\ Len(hist) < MaxCalls
    /\ Commit(cpu6502_nmi(M))
    /\ hist' = Append(hist, Call("nmi", cpu.pc, 0))
    /\ UNCHANGED << chip, FrameVars, NmiVars, CtlVars, ret >>

NextCpu == CpuReset \/ CpuStep \/ CpuIrq \/ CpuNmi

SpecCpu == InitCpu /\ [][NextCpu]_vars

\* C1: after cpu6502_init and any sequence of cpu6502_reset, cpu6502_step,
\* cpu6502_irq and cpu6502_nmi calls, bit 5 of the live status register is 1
\* and bit 4 is 0.
C1_StatusBits == Bit(cpu.status, 5) = 1 /\ Bit(cpu.status, 4) = 0

\* C1 witness: PLP has just pulled a byte with every bit set, B and U among
\* them, and the live register holds $EF
C1_Witness ==
    /\ hist # << >>
    /\ LastCall.kind = "step"
    /\ LastCall.val = \h28
    /\ Get(ram, \h0100 + cpu.sp) = \hFF
    /\ cpu.status = \hEF

(***************************************************************************)
(* Every opcode byte, on the flat bus: the CPU stands before one            *)
(* instruction with its registers set up, and cpu6502_step, cpu6502_irq,   *)
(* cpu6502_nmi and cpu6502_reset are called in any order.                  *)
(***************************************************************************)
\* where the instruction is, its two operand bytes, the index registers, the
\* stack pointer and the status register.  The operand bytes double as the
\* next two one-byte instructions (CLC, PLP and CLD, PLP) and as a branch
\* offset; at $FFFD they overlay the IRQ/BRK vector.
OpConfigs ==
    [pc      : {\h02F0, \hFFFD},
     operand : {<< \hFF, \h10 >>, << \h18, \h28 >>, << \hD8, \h28 >>},
     index   : {0, 1},
     sp      : {\h00, \hFD},
     status  : {\hE3, \h2C}]

\* bus_flat_t.ram: the instruction, then RTS at the operand addresses $10FF
\* and $2818, pointers in page 0, a different byte in every stack slot the
\* calls can pull, RTI at the handlers, the vectors (NMI $9000, reset $8000,
\* IRQ/BRK $9010)
OpRam(op, c) ==
    (c.pc :> op) @@ (U16(c.pc + 1) :> c.operand[1]) @@ (U16(c.pc + 2) :> c.operand[2])
    @@ (\h10FF :> \h60) @@ (\h2818 :> \h60) @@ (\h28D8 :> \h77)
    @@ (\h1000 :> \h12) @@ (\h1100 :> \h34)
    @@ (\h0018 :> \hFF) @@ (\h0019 :> \h20) @@ (\h00FF :> \h80) @@ (\h0000 :> \h10)
    @@ (\h01FD :> \h96) @@ (\h01FE :> \hA1) @@ (\h01FF :> \hB2) @@ (\h0100 :> \hC3)
    @@ (\h0101 :> \hD4) @@ (\h0102 :> \hE5) @@ (\h0103 :> \hF6)
    @@ (\h9000 :> \h40) @@ (\h9010 :> \h40)
    @@ (\hFFFA :> \h00) @@ (\hFFFB :> \h90) @@ (\hFFFC :> \h00) @@ (\hFFFD :> \h80)
    @@ (\hFFFE :> \h10) @@ (\hFFFF :> \h90)

InitOp ==
    \E op \in 0 .. 255, c \in OpConfigs :
        /\ Holds([nes_init(Cartridge(0, << >>)) EXCEPT
                      !.bus = "flat",
                      !.cpu = [cpu6502_init EXCEPT
                                   !.pc = c.pc, !.a = \h80, !.x = c.index,
                                   !.y = c.index, !.sp = c.sp,
                                   !.status = c.status],
                      !.ram = OpRam(op, c)])
        /\ Started("idle")

\* cpu6502_step(cpu); a call on a halted CPU returns at once
OpStep ==
    /\ Len(hist) < MaxOpCalls
    /\ Commit(cpu6502_step(M))
    /\ hist' = IF cpu.halted THEN hist
               ELSE Append(hist, Call("step", cpu.pc, cpu_read(M, cpu.pc).val))
    /\ UNCHANGED << chip, FrameVars, NmiVars, CtlVars, ret >>

\* cpu6502_irq(cpu)
OpIrq ==
    /\ Len(hist) < MaxOpCalls
    /\ Commit(cpu6502_irq(M))
    /\ hist' = Append(hist, Call("irq", cpu.pc, 0))
    /\ UNCHANGED << chip, FrameVars, NmiVars, CtlVars, ret >>

\* cpu6502_nmi(cpu)
OpNmi ==
    /\ Len(hist) < MaxOpCalls
    /\ Commit(cpu6502_nmi(M))
    /\ hist' = Append(hist, Call("nmi", cpu.pc, 0))
    /\ UNCHANGED << chip, FrameVars, NmiVars, CtlVars, ret >>

\* cpu6502_reset(cpu)
OpReset ==
    /\ Len(hist) < MaxOpCalls
    /\ Commit(cpu6502_reset(M))
    /\ hist' = Append(hist, Call("reset", cpu.pc, 0))
    /\ UNCHANGED << chip, FrameVars, NmiVars, CtlVars, ret >>

NextOp == OpStep \/ OpIrq \/ OpNmi \/ OpReset

SpecOp == InitOp /\ [][NextOp]_vars

\* C11: a step of a non-halted CPU at opcode op adds opcode_cycles[op], plus
\* 1 when op is a read instruction in abs,X / abs,Y / (zp),Y mode whose
\* indexing crosses a page, plus 1 for a taken branch and 1 more when the
\* branch target is in another page than the instruction that follows.
C11_CycleCost ==
    [][IsKind("step") =>
         LET op   == Get(ram, cpu.pc)
             lo   == Get(ram, U16(cpu.pc + 1))
             hi   == Get(ram, U16(cpu.pc + 2))
             ptr  == Get(ram, BitAnd(lo + 1, \hFF)) * 256 + Get(ram, lo)
             base == IF op \in {\hB1, \h71, \hF1, \h31, \h11, \h51, \hD1}
                     THEN ptr ELSE hi * 256 + lo
             idx  == IF op \in {\hBD, \hBC, \h7D, \hFD, \h3D, \h1D, \h5D, \hDD}
                     THEN cpu.x ELSE cpu.y
             read == op \in {\hBD, \hBC, \h7D, \hFD, \h3D, \h1D, \h5D, \hDD,
                             \hB9, \hBE, \h79, \hF9, \h39, \h19, \h59, \hD9,
                             \hB1, \h71, \hF1, \h31, \h11, \h51, \hD1}
             p    == IF read /\ base \div 256 # U16(base + idx) \div 256
                     THEN 1 ELSE 0
             flag == CASE op \in {\h10, \h30} -> Bit(cpu.status, 7)
                       [] op \in {\h50, \h70} -> Bit(cpu.status, 6)
                       [] op \in {\h90, \hB0} -> Bit(cpu.status, 0)
                       [] op \in {\hD0, \hF0} -> Bit(cpu.status, 1)
                       [] OTHER -> 0
             taken == \/ op \in {\h10, \h50, \h90, \hD0} /\ flag = 0
                      \/ op \in {\h30, \h70, \hB0, \hF0} /\ flag = 1
             next == U16(cpu.pc + 2)
             target == U16(next + Int8(lo) + 65536)
             b    == IF ~taken THEN 0
                     ELSE IF target \div 256 # next \div 256 THEN 2 ELSE 1
         IN  cpu'.cycles = cpu.cycles + OpcodeCycles[op + 1] + p + b]_vars

\* C11 witness: LDA $10FF,X with X = 1 has just cost 5 cycles
C11_Witness ==
    /\ Len(hist) = 1
    /\ LastCall.kind = "step"
    /\ LastCall.val = \hBD
    /\ LastCall.pre.cpu.x = 1
    /\ Get(ram, U16(LastCall.addr + 1)) = \hFF
    /\ Get(ram, U16(LastCall.addr + 2)) = \h10
    /\ cpu.a = \h34
    /\ cpu.cycles = LastCall.pre.cycles + 5

\* C12: a push writes to $0100 + S and then decrements S modulo 256, a pull
\* increments S modulo 256 and then reads $0100 + S: PHA, PHP, JSR, BRK and
\* the interrupt entries store their bytes in the slots S, S-1, S-2 of page 1
\* and nowhere else, PLA, PLP, RTS and RTI load theirs from the slots S+1,
\* S+2, S+3 and store nothing, and S stays in 0..255.
C12_StackPage ==
    [][LET op      == Get(ram, cpu.pc)
           Slot(k) == \h0100 + U8(cpu.sp + k)
           Pushed(bytes) ==
               /\ cpu'.sp = U8(cpu.sp + 256 - Len(bytes))
               /\ \A i \in 1 .. Len(bytes) :
                      Get(ram', Slot(257 - i)) = bytes[i]
               /\ \A a \in (DOMAIN ram) \cup (DOMAIN ram') :
                      a \notin {Slot(257 - i) : i \in 1 .. Len(bytes)}
                          => Get(ram', a) = Get(ram, a)
           Pulled(n) == cpu'.sp = U8(cpu.sp + n) /\ ram' = ram
           back    == U16(cpu.pc + 2)
           entry   == BitOr(BitAnd(cpu.status, \hEF), \h20)
       IN  /\ cpu'.sp \in 0 .. 255
           /\ (IsKind("step") /\ op = \h48) => Pushed(<< cpu.a >>)
           /\ (IsKind("step") /\ op = \h08) =>
                  Pushed(<< BitOr(cpu.status, \h30) >>)
           /\ (IsKind("step") /\ op = \h20) =>
                  Pushed(<< back \div 256, back % 256 >>)
           /\ (IsKind("step") /\ op = \h00) =>
                  Pushed(<< back \div 256, back % 256, BitOr(cpu.status, \h30) >>)
           /\ (IsKind("nmi") \/ (IsKind("irq") /\ Bit(cpu.status, 2) = 0)) =>
                  Pushed(<< cpu.pc \div 256, cpu.pc % 256, entry >>)
           /\ (IsKind("step") /\ op = \h68) =>
                  (Pulled(1) /\ cpu'.a = Get(ram, Slot(1)))
           /\ (IsKind("step") /\ op = \h28) =>
                  /\ Pulled(1)
                  /\ BitAnd(cpu'.status, \hCF) = BitAnd(Get(ram, Slot(1)), \hCF)
           /\ (IsKind("step") /\ op = \h60) =>
                  /\ Pulled(2)
                  /\ cpu'.pc = U16(Get(ram, Slot(2)) * 256 + Get(ram, Slot(1)) + 1)
           /\ (IsKind("step") /\ op = \h40) =>
                  /\ Pulled(3)
                  /\ BitAnd(cpu'.status, \hCF) = BitAnd(Get(ram, Slot(1)), \hCF)
                  /\ cpu'.pc = Get(ram, Slot(3)) * 256 + Get(ram, Slot(2))]_vars

\* C12 witness: JSR with S = $00 pushed to $0100 and $01FF, and the RTS that
\* followed pulled them back with S wrapping from $FF to $00
C12_Witness ==
    /\ Len(hist) = 2
    /\ hist[1].kind = "step" /\ hist[1].val = \h20
    /\ hist[1].pre.cpu.sp = \h00
    /\ hist[2].kind = "step" /\ hist[2].val = \h60
    /\ hist[2].pre.cpu.sp = \hFE
    /\ Get(ram, \h0100) = U16(hist[1].addr + 2) \div 256
    /\ Get(ram, \h01FF) = U16(hist[1].addr + 2) % 256
    /\ cpu.sp = \h00

\* C13: JSR fetched at X sets PC to its operand and lowers S by 2 modulo 256;
\* the RTS that runs next, on the stack as JSR left it, sets PC to X + 3
\* modulo 2^16 and puts S back, for every X and S.
C13_JsrRts ==
    [][LET op == Get(ram, cpu.pc)
       IN  /\ (IsKind("step") /\ op = \h20) =>
                  /\ cpu'.pc = Get(ram, U16(cpu.pc + 1))
                                   + 256 * Get(ram, U16(cpu.pc + 2))
                  /\ cpu'.sp = U8(cpu.sp + 254)
           /\ (IsKind("step") /\ op = \h60 /\ Len(hist) > 0
                   /\ LastCall.kind = "step" /\ LastCall.val = \h20) =>
                  /\ cpu'.pc = U16(LastCall.addr + 3)
                  /\ cpu'.sp = LastCall.pre.cpu.sp]_vars

\* C13 witness: JSR at $FFFD with S = $00, then RTS: PC wrapped to $0000 and
\* S is $00 again
C13_Witness ==
    /\ Len(hist) = 2
    /\ hist[1].kind = "step" /\ hist[1].val = \h20 /\ hist[1].addr = \hFFFD
    /\ hist[1].pre.cpu.sp = \h00
    /\ hist[2].kind = "step" /\ hist[2].val = \h60
    /\ hist[2].pre.cpu.sp = \hFE
    /\ cpu.pc = \h0000
    /\ cpu.sp = \h00

\* C14: the RTI that runs next after an interrupt entry returns to the
\* interrupted instruction (after cpu6502_nmi, or cpu6502_irq with I clear)
\* or to brk_pc + 2 (after BRK), puts S back, and restores N, V, D, I, Z, C
\* to their values before the entry, with B clear and bit 5 set.
C14_RtiRestores ==
    [][(IsKind("step") /\ Get(ram, cpu.pc) = \h40 /\ Len(hist) > 0) =>
           LET before   == LastCall.pre.cpu
               Restored ==
                   /\ cpu'.sp = before.sp
                   /\ BitAnd(cpu'.status, \hCF) = BitAnd(before.status, \hCF)
                   /\ Bit(cpu'.status, 4) = 0
                   /\ Bit(cpu'.status, 5) = 1
           IN  /\ (LastCall.kind = "nmi"
                       \/ (LastCall.kind = "irq" /\ Bit(before.status, 2) = 0)) =>
                      (cpu'.pc = before.pc /\ Restored)
               /\ (LastCall.kind = "step" /\ LastCall.val = \h00) =>
                      (cpu'.pc = U16(LastCall.addr + 2) /\ Restored)]_vars

\* C14 witness: BRK at $02F0 with S = $00 and N, V, Z, C set, then the RTI of
\* its handler: PC is $02F2, S is $00 and the status is $E3 again
C14_Witness ==
    /\ Len(hist) = 2
    /\ hist[1].kind = "step" /\ hist[1].val = \h00 /\ hist[1].addr = \h02F0
    /\ hist[1].pre.cpu.sp = \h00
    /\ hist[1].pre.cpu.status = \hE3
    /\ hist[2].kind = "step" /\ hist[2].val = \h40
    /\ Bit(hist[2].pre.cpu.status, 2) = 1
    /\ cpu.pc = \h02F2
    /\ cpu.sp = \h00
    /\ cpu.status = \hE3

\* C15: PHP stores the status with bits 4 and 5 set and leaves the register
\* as it was; the PLP that follows it, with a flag-changing instruction (CLC
\* or CLD) in between, restores N, V, D, I, Z, C to their values at the PHP,
\* with B clear and bit 5 set.
C15_PhpPlp ==
    [][LET op == Get(ram, cpu.pc)
           n  == Len(hist)
       IN  /\ (IsKind("step") /\ op = \h08) =>
                  /\ cpu'.status = cpu.status
                  /\ Get(ram', \h0100 + cpu.sp) = BitOr(cpu.status, \h30)
           /\ (IsKind("step") /\ op = \h28 /\ n >= 2
                   /\ hist[n - 1].kind = "step" /\ hist[n - 1].val = \h08
                   /\ hist[n].kind = "step" /\ hist[n].val \in {\h18, \hD8}) =>
                  /\ BitAnd(cpu'.status, \hCF)
                         = BitAnd(hist[n - 1].pre.cpu.status, \hCF)
                  /\ Bit(cpu'.status, 4) = 0
                  /\ Bit(cpu'.status, 5) = 1]_vars

\* C15 witness: PHP with status $E3, CLC cleared the carry, PLP set it again
C15_Witness ==
    /\ Len(hist) = 3
    /\ hist[1].kind = "step" /\ hist[1].val = \h08
    /\ hist[1].pre.cpu.status = \hE3
    /\ hist[2].kind = "step" /\ hist[2].val = \h18
    /\ hist[3].kind = "step" /\ hist[3].val = \h28
    /\ hist[3].pre.cpu.status = \hE2
    /\ cpu.status = \hE3

\* the opcode bytes the dispatch table maps to the illegal handler
IllegalOpcodes == {b \in 0 .. 255 : OpcodeMnemonic[b + 1] = "ill"}

\* C16: halted becomes true only in a cpu6502_step that fetches one of the
\* 105 bytes mapped to the illegal handler; such a step of a running CPU
\* always sets it, a step on one of the other 151 bytes never changes it, and
\* cpu6502_irq and cpu6502_nmi never change it.
C16_HaltOnlyOnIllegal ==
    [][LET op == Get(ram, cpu.pc)
       IN  /\ Cardinality(IllegalOpcodes) = 105
           /\ Cardinality((0 .. 255) \ IllegalOpcodes) = 151
           /\ (~cpu.halted /\ cpu'.halted) =>
                  (IsKind("step") /\ op \in IllegalOpcodes)
           /\ (IsKind("step") /\ op \in IllegalOpcodes) => cpu'.halted
           /\ (IsKind("step") /\ op \notin IllegalOpcodes) => ~cpu'.halted
           /\ (IsKind("irq") \/ IsKind("nmi")) => cpu'.halted = cpu.halted]_vars

\* C16 witness: the first step fetched the illegal byte $02 and halted the CPU
C16_Witness ==
    /\ Len(hist) = 1
    /\ hist[1].kind = "step" /\ hist[1].val = \h02
    /\ ~hist[1].pre.cpu.halted
    /\ cpu.halted
    /\ cpu.pc = U16(hist[1].addr + 1)

\* C17: halted is terminal: once it is set, no cpu6502_step, cpu6502_irq,
\* cpu6502_nmi or cpu6502_reset call clears it.
C17_HaltedTerminal == [][cpu.halted => cpu'.halted]_vars

\* C18: cpu6502_irq called while I is set changes nothing: PC, S, A, X, Y,
\* the status, the cycle counter and every byte of memory are as before.
C18_IrqMasked ==
    [][(IsKind("irq") /\ Bit(cpu.status, 2) = 1) =>
           /\ cpu'.pc = cpu.pc
           /\ cpu'.sp = cpu.sp
           /\ cpu'.a = cpu.a /\ cpu'.x = cpu.x /\ cpu'.y = cpu.y
           /\ cpu'.status = cpu.status
           /\ cpu'.cycles = cpu.cycles
           /\ ram' = ram]_vars

\* C18 witness: cpu6502_nmi set I and entered its handler at $9000, and the
\* cpu6502_irq that followed left the CPU there, 7 cycles after the start
C18_Witness ==
    /\ Len(hist) = 2
    /\ hist[1].kind = "nmi"
    /\ Bit(hist[1].pre.cpu.status, 2) = 0
    /\ hist[2].kind = "irq"
    /\ hist[2].pre.cpu.pc = \h9000
    /\ Bit(hist[2].pre.cpu.status, 2) = 1
    /\ cpu = hist[2].pre.cpu
    /\ cpu.cycles = hist[1].pre.cycles + 7

(***************************************************************************)
(* The address maps: the cartridge window of the CPU bus and the palette   *)
(* of the PPU bus, accessed directly.                                      *)
(***************************************************************************)
\* the PRG image of an n-bank file: three bytes in each bank, no two equal
PrgImage(n) ==
    [off \in {k * \h4000 + o : k \in 0 .. (n - 1), o \in {\h0000, \h0123, \h3FFF}} |->
        (off \div \h4000 + 1) * 16 + (off % 16)]

\* the files cartridge_load accepts: mapper 0, PRG bank count from 1
Cartridges ==
    { [Cartridge(0, << >>) EXCEPT !.prg_banks = n, !.hi = PrgImage(n)] :
      n \in 1 .. MaxBanks }

\* CPU addresses read, and written, in the cartridge window
CartReads == {\h4020, \h7FFF, \h8000, \h8123, \hBFFF, \hC000, \hC123, \hFFFF}

CartWrites == {\h4020, \hFFFF}

\* the four aliased pairs of palette addresses
PaletteAddrs ==
    {\h3F00, \h3F04, \h3F08, \h3F0C, \h3F10, \h3F14, \h3F18, \h3F1C}

\* the palette writes explored: a byte of its own for each address, bits 6
\* and 7 set in most
PaletteWrites ==
    { << \h3F00, \h95 >>, << \h3F04, \hC1 >>, << \h3F08, \h7E >>, << \h3F0C, \h2A >>,
      << \h3F10, \hFF >>, << \h3F14, \h83 >>, << \h3F18, \h40 >>, << \h3F1C, \hD6 >> }

InitMap ==
    \E c \in Cartridges :
        /\ Holds(nes_init(c))
        /\ Started("idle")

\* nes_bus_read(nes, addr)
BusRead ==
    \E addr \in CartReads :
        LET r == nes_bus_read(M, addr)
        IN  /\ Len(hist) < MaxBusOps
            /\ Commit(r.m)
            /\ ret' = r.val
            /\ hist' = Append(hist, Call("bus_read", addr, r.val))
            /\ UNCHANGED << chip, FrameVars, NmiVars, CtlVars >>

\* nes_bus_write(nes, addr, val)
BusWrite ==
    \E addr \in CartWrites :
        /\ Len(hist) < MaxBusOps
        /\ Commit(nes_bus_write(M, addr, \hAB))
        /\ hist' = Append(hist, Call("bus_write", addr, \hAB))
        /\ UNCHANGED << chip, FrameVars, NmiVars, CtlVars, ret >>

\* ppu_bus_read(ppu, addr)
PpuBusRead ==
    \E addr \in PaletteAddrs :
        /\ Len(hist) < MaxBusOps
        /\ Commit(M)
        /\ ret' = ppu_bus_read(M, addr)
        /\ hist' = Append(hist, Call("ppu_bus_read", addr, ppu_bus_read(M, addr)))
        /\ UNCHANGED << chip, FrameVars, NmiVars, CtlVars >>

\* ppu_bus_write(ppu, addr, val)
PpuBusWrite ==
    \E w \in PaletteWrites :
        /\ Len(hist) < MaxBusOps
        /\ Commit(ppu_bus_write(M, w[1], w[2]))
        /\ hist' = Append(hist, Call("ppu_bus_write", w[1], w[2]))
        /\ UNCHANGED << chip, FrameVars, NmiVars, CtlVars, ret >>

NextMap == BusRead \/ BusWrite \/ PpuBusRead \/ PpuBusWrite

SpecMap == InitMap /\ [][NextMap]_vars

\* C19: with n PRG banks a CPU read of a in $8000-$BFFF returns
\* PRG[a & $3FFF], a read of a in $C000-$FFFF returns
\* PRG[(n - 1) * $4000 + (a & $3FFF)], a read of a in $4020-$7FFF returns 0,
\* and a CPU write in $4020-$FFFF changes nothing.
C19_CartridgeWindow ==
    [][LET a == hist'[Len(hist')].addr
           n == cart.prg_banks
       IN  /\ (IsKind("bus_read") /\ a \in \h8000 .. \hBFFF) =>
                  ret' = PrgByte(cart, BitAnd(a, \h3FFF))
           /\ (IsKind("bus_read") /\ a \in \hC000 .. \hFFFF) =>
                  ret' = PrgByte(cart, (n - 1) * \h4000 + BitAnd(a, \h3FFF))
           /\ (IsKind("bus_read") /\ a \in \h4020 .. \h7FFF) => ret' = 0
           /\ IsKind("bus_write") => M' = M]_vars

\* C20: a byte written on the PPU bus at either address of an aliased
\* palette pair ($3F00/$3F10, $3F04/$3F14, $3F08/$3F18, $3F0C/$3F1C) reads
\* back, masked to its low 6 bits, at both addresses of the pair: a palette
\* read returns the low 6 bits of the value last written to its pair.
C20_PaletteAlias ==
    [][IsKind("ppu_bus_read") =>
           LET a      == hist'[Len(hist')].addr
               writes == {i \in 1 .. Len(hist) :
                              /\ hist[i].kind = "ppu_bus_write"
                              /\ BitAnd(hist[i].addr, \h0F) = BitAnd(a, \h0F)}
           IN  writes # {} =>
                   \E i \in writes :
                       /\ \A j \in writes : j <= i
                       /\ ret' = BitAnd(hist[i].val, \h3F)]_vars

\* C20 witness: $95 written at $3F00, then $FF written at $3F10, read back as
\* $3F at $3F00
C20_Witness ==
    /\ Len(hist) = 3
    /\ hist[1].kind = "ppu_bus_write" /\ hist[1].addr = \h3F00 /\ hist[1].val = \h95
    /\ hist[2].kind = "ppu_bus_write" /\ hist[2].addr = \h3F10 /\ hist[2].val = \hFF
    /\ hist[3].kind = "ppu_bus_read" /\ hist[3].addr = \h3F00 /\ hist[3].val = \h3F
    /\ ret = \h3F

(***************************************************************************)
(* The binary adder: ADC and SBC immediate, one step from every            *)
(* accumulator, operand and carry, decimal mode off.                       *)
(***************************************************************************)
\* status bytes with D clear: no flag but bit 5 set; N, V, I, Z set
AluStatus == {\h20, \hE6}

\* the machine with the flat 64 KiB bus of the CPU tests in place of the NES bus
FlatMachine == [nes_init(Cartridge(0, << >>)) EXCEPT !.bus = "flat"]

InitAlu ==
    \E op \in {\h69, \hE9}, a \in 0 .. 255, val \in 0 .. 255,
       carry \in 0 .. 1, status \in AluStatus :
        /\ Holds([FlatMachine EXCEPT
                      !.cpu = [cpu6502_init EXCEPT
                                   !.pc = \h0200, !.a = a, !.x = \h11,
                                   !.y = \h22, !.sp = \hFD,
                                   !.status = status + carry],
                      !.ram = (\h0200 :> op) @@ (\h0201 :> val)])
        /\ Started("idle")

\* cpu6502_step(cpu), once
AluStep ==
    /\ Len(hist) < 1
    /\ Commit(cpu6502_step(M))
    /\ hist' = Append(hist, Call("step", cpu.pc, cpu_read(M, cpu.pc).val))
    /\ UNCHANGED << chip, FrameVars, NmiVars, CtlVars, ret >>

NextAlu == AluStep

SpecAlu == InitAlu /\ [][NextAlu]_vars

\* C24: with D clear, ADC leaves A = (A + M + c) mod 256, C = 1 iff
\* A + M + c > 255, V = 1 iff A and M have the same sign bit and the result's
\* differs, Z = 1 iff the result is 0 and N = bit 7 of the result; X, Y, S,
\* the flags I, D, B and bit 5 and memory are unchanged, and PC moves past the
\* two bytes of the instruction.
C24_AdcBinary ==
    [][(IsKind("step") /\ Get(ram, cpu.pc) = \h69) =>
           LET val == Get(ram, cpu.pc + 1)
               sum == cpu.a + val + Bit(cpu.status, 0)
               res == sum % 256
               ovf == (cpu.a >= 128) = (val >= 128) /\ (res >= 128) # (cpu.a >= 128)
           IN  /\ cpu'.a = res
               /\ Bit(cpu'.status, 0) = (IF sum > 255 THEN 1 ELSE 0)
               /\ Bit(cpu'.status, 6) = (IF ovf THEN 1 ELSE 0)
               /\ Bit(cpu'.status, 1) = (IF res = 0 THEN 1 ELSE 0)
               /\ Bit(cpu'.status, 7) = res \div 128
               /\ BitAnd(cpu'.status, \h3C) = BitAnd(cpu.status, \h3C)
               /\ cpu'.x = cpu.x /\ cpu'.y = cpu.y /\ cpu'.sp = cpu.sp
               /\ cpu'.pc = cpu.pc + 2
               /\ ram' = ram]_vars

\* C24 witness: A = $7F, C = 0, ADC #$01 left A = $80 with V and N set, C and
\* Z clear
C24_Witness ==
    /\ Len(hist) = 1
    /\ hist[1].val = \h69
    /\ hist[1].pre.cpu.a = \h7F
    /\ hist[1].pre.cpu.status = \h20
    /\ Get(ram, \h0201) = \h01
    /\ cpu.a = \h80
    /\ cpu.status = \hE0

\* C25: with D clear, SBC leaves A = (A - M - (1 - c)) mod 256, C = 1 iff
\* A >= M + (1 - c), V = 1 iff the signed difference is outside -128 .. 127,
\* and N, Z from the result; A and the flags are those ADC gives for the
\* one's complement of M.
C25_SbcBinary ==
    [][(IsKind("step") /\ Get(ram, cpu.pc) = \hE9) =>
           LET val    == Get(ram, cpu.pc + 1)
               borrow == 1 - Bit(cpu.status, 0)
               res    == (cpu.a - val - borrow) % 256
               Signed(b) == IF b >= 128 THEN b - 256 ELSE b
               diff   == Signed(cpu.a) - Signed(val) - borrow
               inv    == 255 - val
               sum    == cpu.a + inv + Bit(cpu.status, 0)
               ovf    == (cpu.a >= 128) = (inv >= 128)
                             /\ (sum % 256 >= 128) # (cpu.a >= 128)
           IN  /\ cpu'.a = res
               /\ Bit(cpu'.status, 0) = (IF cpu.a >= val + borrow THEN 1 ELSE 0)
               /\ Bit(cpu'.status, 6) = (IF diff \in -128 .. 127 THEN 0 ELSE 1)
               /\ Bit(cpu'.status, 1) = (IF res = 0 THEN 1 ELSE 0)
               /\ Bit(cpu'.status, 7) = res \div 128
               /\ cpu'.a = sum % 256
               /\ Bit(cpu'.status, 0) = (IF sum > 255 THEN 1 ELSE 0)
               /\ Bit(cpu'.status, 6) = (IF ovf THEN 1 ELSE 0)]_vars

\* C25 witness: A = $30, C = 0, SBC #$10 left A = $1F with C set and V clear
C25_Witness ==
    /\ Len(hist) = 1
    /\ hist[1].val = \hE9
    /\ hist[1].pre.cpu.a = \h30
    /\ hist[1].pre.cpu.status = \h20
    /\ Get(ram, \h0201) = \h10
    /\ cpu.a = \h1F
    /\ cpu.status = \h21

\* C26: cpu6502_nmi, whatever I is, and cpu6502_irq with I clear push PC high,
\* PC low and the status with B clear and bit 5 set, lower S by 3, set I and
\* leave the other flags, load PC from $FFFA/$FFFB (NMI) or $FFFE/$FFFF (IRQ)
\* and add 7 cycles.
C26_InterruptEntry ==
    [][LET Slot(k) == \h0100 + U8(cpu.sp + k)
           Entered(vector) ==
               /\ Get(ram', Slot(0)) = cpu.pc \div 256
               /\ Get(ram', Slot(255)) = cpu.pc % 256
               /\ Get(ram', Slot(254)) = BitOr(BitAnd(cpu.status, \hEF), \h20)
               /\ cpu'.sp = U8(cpu.sp + 253)
               /\ cpu'.status = BitOr(cpu.status, \h04)
               /\ cpu'.pc = Get(ram, vector) + 256 * Get(ram, vector + 1)
               /\ cpu'.cycles = cpu.cycles + 7
       IN  /\ IsKind("nmi") => Entered(\hFFFA)
           /\ (IsKind("irq") /\ Bit(cpu.status, 2) = 0) => Entered(\hFFFE)]_vars

\* C26 witness: cpu6502_nmi with I set and S = $00 entered the handler at
\* $9000, the status byte $2C stored at $01FE
C26_Witness ==
    /\ Len(hist) = 1
    /\ hist[1].kind = "nmi"
    /\ hist[1].pre.cpu.status = \h2C
    /\ hist[1].pre.cpu.sp = \h00
    /\ cpu.pc = \h9000
    /\ cpu.sp = \hFD
    /\ Get(ram, \h01FE) = \h2C
    /\ cpu.cycles = hist[1].pre.cycles + 7

\* C27: BRK at P pushes P + 2, high byte first, then the status with bits 4
\* and 5 set, sets I in the register and leaves its other bits (B among them),
\* loads PC from $FFFE/$FFFF, lowers S by 3 and costs 7 cycles, whatever I is.
C27_Brk ==
    [][(IsKind("step") /\ Get(ram, cpu.pc) = \h00) =>
           LET Slot(k) == \h0100 + U8(cpu.sp + k)
               back    == U16(cpu.pc + 2)
           IN  /\ Get(ram', Slot(0)) = back \div 256
               /\ Get(ram', Slot(255)) = back % 256
               /\ Get(ram', Slot(254)) = BitOr(cpu.status, \h30)
               /\ cpu'.sp = U8(cpu.sp + 253)
               /\ cpu'.status = BitOr(cpu.status, \h04)
               /\ cpu'.pc = Get(ram, \hFFFE) + 256 * Get(ram, \hFFFF)
               /\ cpu'.cycles = cpu.cycles + 7]_vars

\* C27 witness: BRK at $02F0 with status $E3 and S = $FD pushed $02, $F2, $F3
\* and entered the handler at $9010 with I set and B clear
C27_Witness ==
    /\ Len(hist) = 1
    /\ hist[1].kind = "step" /\ hist[1].val = \h00 /\ hist[1].addr = \h02F0
    /\ hist[1].pre.cpu.status = \hE3
    /\ hist[1].pre.cpu.sp = \hFD
    /\ Get(ram, \h01FD) = \h02
    /\ Get(ram, \h01FC) = \hF2
    /\ Get(ram, \h01FB) = \hF3
    /\ cpu.pc = \h9010
    /\ cpu.sp = \hFA
    /\ cpu.status = \hE7
    /\ cpu.cycles = hist[1].pre.cycles + 7

\* C28: cpu6502_reset sets PC to the word at $FFFC/$FFFD, S to $FD and I to 1
\* and adds 7 cycles; it writes no memory and leaves A, X, Y and the flags
\* other than I and bit 5 as they were.
C28_Reset ==
    [][IsKind("reset") =>
           /\ cpu'.pc = Get(ram, \hFFFC) + 256 * Get(ram, \hFFFD)
           /\ cpu'.sp = \hFD
           /\ Bit(cpu'.status, 2) = 1
           /\ BitAnd(cpu'.status, \hDB) = BitAnd(cpu.status, \hDB)
           /\ cpu'.cycles = cpu.cycles + 7
           /\ cpu'.a = cpu.a /\ cpu'.x = cpu.x /\ cpu'.y = cpu.y
           /\ ram' = ram]_vars

\* C28 witness: after LDA #$18 set A and cleared N, cpu6502_reset with
\* S = $00 went to $8000 with S = $FD, I set, A and the other flags kept
C28_Witness ==
    /\ Len(hist) = 2
    /\ hist[1].kind = "step" /\ hist[1].val = \hA9 /\ hist[1].addr = \h02F0
    /\ hist[2].kind = "reset"
    /\ hist[2].pre.cpu.sp = \h00
    /\ hist[2].pre.cpu.status = \h61
    /\ hist[2].pre.cpu.a = \h18
    /\ cpu.pc = \h8000
    /\ cpu.sp = \hFD
    /\ cpu.status = \h65
    /\ cpu.a = \h18
    /\ cpu.cycles = hist[2].pre.cycles + 7

\* C30: in every reachable PPU state nmi_occurred equals bit 7 (VBlank) of
\* the status register.
C30_NmiMirrorsStatus == ppu.nmi_occurred <=> Bit(ppu.status, 7) = 1

MaxChipCycles == 36

\* the bytes of a ROM file holding the big-endian opcodes ws
RomOf(ws) ==
    [k \in 1 .. (2 * Len(ws)) |->
        IF k % 2 = 1 THEN ws[(k + 1) \div 2] \div 256 ELSE ws[k \div 2] % 256]

\* ROM files: a subroutine calling itself until the stack is full and then
\* returning until it is empty; a straight-line program over the registers,
\* the display, the keypad, the timers and memory
ChipRoms ==
    { RomOf(<< \h2200, \h00EE >>),
      RomOf(<< \h6005, \h6103, \h8014, \hA000, \hD015, \hD015, \hC2FF, \hF015,
               \hF00A, \hF133, \hF155, \hF165, \h3008, \h00E0, \h8125, \h812E,
               \hF007, \hE19E, \hB210, \h1200 >>) }

\* values rand() returns
RandValues == {0, \h1A5}

\* keys the player presses and releases
ChipKeys == {0, 5}

InitChip8 == Holds(FlatMachine) /\ Started("idle")

\* main: chip8_load_rom right after chip8_init
Chip8LoadRom ==
    /\ hist = << >>
    /\ \E rom \in ChipRoms :
          /\ chip8_load_rom(chip, rom).ok
          /\ chip' = chip8_load_rom(chip, rom).c
    /\ hist' = << [kind |-> "load", addr |-> \h200, val |-> 0] >>
    /\ UNCHANGED << bus, cpu, ram, ppu, cart, controller, controller_shift,
                    controller_strobe, dma_pending, dma_page,
                    FrameVars, NmiVars, CtlVars, ret >>

Chip8Cycle ==
    /\ hist # << >>
    /\ Len(hist) <= MaxChipCycles
    /\ \E rnd \in RandValues : chip' = chip8_cycle(chip, rnd)
    /\ hist' = Append(hist, [kind |-> "cycle", addr |-> chip.pc,
                             val |-> ChipOpcode(chip)])
    /\ UNCHANGED << bus, cpu, ram, ppu, cart, controller, controller_shift,
                    controller_strobe, dma_pending, dma_page,
                    FrameVars, NmiVars, CtlVars, ret >>

Chip8TickTimers ==
    /\ hist # << >>
    /\ chip' = chip8_tick_timers(chip)
    /\ UNCHANGED << bus, cpu, ram, ppu, cart, controller, controller_shift,
                    controller_strobe, dma_pending, dma_page,
                    FrameVars, NmiVars, CtlVars, hist, ret >>

\* platform_handle_input: a key-down or key-up event of a mapped key
Chip8SetKey ==
    /\ hist # << >>
    /\ \E k \in ChipKeys, value \in 0 .. 1 : chip' = [chip EXCEPT !.keypad[k] = value]
    /\ UNCHANGED << bus, cpu, ram, ppu, cart, controller, controller_shift,
                    controller_strobe, dma_pending, dma_page,
                    FrameVars, NmiVars, CtlVars, hist, ret >>

NextChip8 == Chip8LoadRom \/ Chip8Cycle \/ Chip8TickTimers \/ Chip8SetKey

SpecChip8 == InitChip8 /\ [][NextChip8]_vars

\* C23 as stated: a chip8_cycle call that fetches 00EE with sp = 0, or 2NNN
\* with sp = 16, leaves the whole interpreter state (pc, sp, stack, V, I,
\* memory, display, timers) as it was before the call.
C23_StackFaultNoChange ==
    [][(/\ IsKind("cycle")
        /\ \/ ChipOpcode(chip) = \h00EE /\ chip.sp = 0
           \/ ChipOpcode(chip) \div 4096 = 2 /\ chip.sp = 16)
       => chip' = chip]_vars

(***************************************************************************)
(* SpecLoad: cartridge_load as nes_init calls it, on the zeroed nes->cart  *)
(* and a non-NULL path, and cartridge_free as nes_free calls it.  A path   *)
(* is "missing" (fopen fails) or names a file: its first 16 bytes (fewer   *)
(* in a shorter file) and the number of bytes after them.  An              *)
(* attached image is the part of the file it was read from.                *)
(***************************************************************************)
MaxLoads == 1

INES_HEADER_SIZE == 16
PRG_BANK_SIZE == 16384
CHR_BANK_SIZE == 8192
TRAINER_SIZE == 512

ines_magic == << \h4E, \h45, \h53, \h1A >>

\* a null image pointer, and the image read from size bytes at offset off of
\* the file
NULL == [attached |-> FALSE, off |-> 0, size |-> 0]

Image(off, size) == [attached |-> TRUE, off |-> off, size |-> size]

\* the path arguments: NULL, a path fopen cannot open, a file
NullPath == [kind |-> "NULL", head |-> << >>, rest |-> 0]

MissingPath == [kind |-> "missing", head |-> << >>, rest |-> 0]

File(head, rest) == [kind |-> "file", head |-> head, rest |-> rest]

\* a cartridge_t after memset 0
ZeroCartridge ==
    [prg_rom |-> NULL, chr_rom |-> NULL, chr_ram |-> Zeroed,
     prg_banks |-> 0, chr_banks |-> 0, mapper_id |-> 0,
     mirror |-> "MIRROR_HORIZONTAL"]

\* a variant that keeps the pointers: C22 does not hold of it
cartridge_free_Mut(c) == c

cartridge_free(c) == [c EXCEPT !.prg_rom = NULL, !.chr_rom = NULL]

\* the fail label of cartridge_load
LoadFail(c) == [ok |-> FALSE, cart |-> cartridge_free(c)]

\* fread(buf, 1, size, fp) with the file position at pos: the bytes read
Fread(file, pos, size) ==
    IF Len(file.head) + file.rest - pos >= size THEN size
    ELSE IF Len(file.head) + file.rest > pos THEN Len(file.head) + file.rest - pos
    ELSE 0

\* the header fields cartridge_load extracts
HeaderFields(c, header) ==
    [c EXCEPT !.prg_banks = header[5],
              !.chr_banks = header[6],
              !.mapper_id = BitOr(BitAnd(header[8], \hF0), header[7] \div 16),
              !.mirror = IF BitAnd(header[7], \h01) # 0
                         THEN "MIRROR_VERTICAL" ELSE "MIRROR_HORIZONTAL"]

\* cartridge_load from the CHR part on; c has its PRG image, pos is the file
\* position after it
LoadChr(c, file, pos, env) ==
    IF c.chr_banks > 0
    THEN IF env = "no_chr_memory" THEN LoadFail(c)
         ELSE IF Fread(file, pos, c.chr_banks * CHR_BANK_SIZE) # c.chr_banks * CHR_BANK_SIZE
              THEN LoadFail([c EXCEPT !.chr_rom =
                                Image(pos, c.chr_banks * CHR_BANK_SIZE)])
              ELSE [ok |-> TRUE,
                    cart |-> [c EXCEPT !.chr_rom =
                                Image(pos, c.chr_banks * CHR_BANK_SIZE)]]
    ELSE [ok |-> TRUE, cart |-> [c EXCEPT !.chr_rom = NULL, !.chr_ram = Zeroed]]

\* cartridge_load from the trainer on; c has the header fields
LoadBody(c, file, env) ==
    LET trainer == BitAnd(file.head[7], \h04) # 0
        pos == INES_HEADER_SIZE + (IF trainer THEN TRAINER_SIZE ELSE 0)
        prg_size == c.prg_banks * PRG_BANK_SIZE
        loaded == [c EXCEPT !.prg_rom = Image(pos, prg_size)]
    IN  IF trainer /\ env = "no_seek" THEN LoadFail(c)
        ELSE IF env = "no_prg_memory" THEN LoadFail(c)
        ELSE IF Fread(file, pos, prg_size) # prg_size THEN LoadFail(loaded)
        ELSE LoadChr(loaded, file, pos + prg_size, env)

\* cartridge_load: the cartridge it leaves and the value it returns; env is
\* the one library call that fails, if any
cartridge_load(c, path, env) ==
    IF path = NullPath THEN [ok |-> FALSE, cart |-> c]
    ELSE IF path = MissingPath THEN [ok |-> FALSE, cart |-> ZeroCartridge]
    ELSE IF Fread(path, 0, INES_HEADER_SIZE) # INES_HEADER_SIZE
         THEN LoadFail(ZeroCartridge)
    ELSE IF SubSeq(path.head, 1, 4) # ines_magic THEN LoadFail(ZeroCartridge)
    ELSE IF HeaderFields(ZeroCartridge, path.head).mapper_id # 0
         THEN LoadFail(HeaderFields(ZeroCartridge, path.head))
    ELSE IF HeaderFields(ZeroCartridge, path.head).prg_banks = 0
         THEN LoadFail(HeaderFields(ZeroCartridge, path.head))
    ELSE LoadBody(HeaderFields(ZeroCartridge, path.head), path, env)

\* the 16-byte headers of the files: a wrong first or last magic byte;
\* headers of 0..2 PRG banks, 0..1 CHR banks, flags 6 with the
\* mirroring, trainer and low mapper nibble bits, flags 7 with the high
\* mapper nibble and a bit outside it
RomHeads ==
    { << m[1], \h45, \h53, m[2], prg, chr, b6, b7, 0, 0, 0, 0, 0, 0, 0, 0 >> :
        m \in { << \h4E, \h1A >>, << \h4F, \h1A >>, << \h4E, \h1B >> },
        prg \in 0 .. 2, chr \in 0 .. 1,
        b6 \in { \h00, \h01, \h04, \h10 }, b7 \in { \h00, \h10, \h08 } }

\* numbers of bytes after the header
RomRests ==
    { 0, PRG_BANK_SIZE - 1, PRG_BANK_SIZE, PRG_BANK_SIZE + TRAINER_SIZE,
      PRG_BANK_SIZE + CHR_BANK_SIZE + TRAINER_SIZE - 1,
      PRG_BANK_SIZE + CHR_BANK_SIZE + TRAINER_SIZE,
      2 * PRG_BANK_SIZE + CHR_BANK_SIZE + TRAINER_SIZE }

\* a path fopen cannot open, a file of 3 bytes, files with a header
RomPaths ==
    { MissingPath, File(<< \h4E, \h45, \h53 >>, 0) }
    \cup { File(h, r) : h \in RomHeads, r \in RomRests }

LoadEnvs == { "ok", "no_seek", "no_prg_memory", "no_chr_memory" }

InitLoad ==
    /\ Holds([FlatMachine EXCEPT !.cart = ZeroCartridge])
    /\ Started("idle")

CartridgeLoad ==
    /\ Len(hist) < MaxLoads
    /\ \E path \in RomPaths, env \in LoadEnvs :
          /\ cart' = cartridge_load(cart, path, env).cart
          /\ ret' = IF cartridge_load(cart, path, env).ok THEN 1 ELSE 0
          /\ hist' = Append(hist, [kind |-> "load", path |-> path, env |-> env])
    /\ UNCHANGED << chip, bus, cpu, ram, ppu, controller, controller_shift,
                    controller_strobe, dma_pending, dma_page,
                    FrameVars, NmiVars, CtlVars >>

CartridgeFree ==
    /\ hist # << >>
    /\ cart' = cartridge_free(cart)
    /\ UNCHANGED << chip, bus, cpu, ram, ppu, controller, controller_shift,
                    controller_strobe, dma_pending, dma_page,
                    FrameVars, NmiVars, CtlVars, hist, ret >>

NextLoad == CartridgeLoad \/ CartridgeFree

SpecLoad == InitLoad /\ [][NextLoad]_vars

\* the bytes a header announces after itself: the trainer when flags 6 bit 2
\* is set, 16 KiB per PRG bank, 8 KiB per CHR bank
Announced(header) ==
    (IF (header[7] \div 4) % 2 = 1 THEN 512 ELSE 0)
    + header[5] * 16384 + header[6] * 8192

\* the file is a well-formed mapper-0 image with every announced byte
WellFormed(path) ==
    /\ path.kind = "file"
    /\ Len(path.head) = 16
    /\ path.head[1] = \h4E /\ path.head[2] = \h45
    /\ path.head[3] = \h53 /\ path.head[4] = \h1A
    /\ (path.head[8] \div 16) * 16 + path.head[7] \div 16 = 0
    /\ path.head[5] >= 1
    /\ path.rest >= Announced(path.head)

nes_palette ==
    << \h666666, \h002A88, \h1412A7, \h3B00A4, \h5C007E, \h6E0040, \h6C0600, \h561D00,
       \h333500, \h0B4800, \h005200, \h004F08, \h00404D, \h000000, \h000000, \h000000,
       \hADADAD, \h155FD9, \h4240FF, \h7527FE, \hA01ACC, \hB71E7B, \hB53120, \h994E00,
       \h6B6D00, \h388700, \h0C9300, \h008F32, \h007C8D, \h000000, \h000000, \h000000,
       \hFFFFFF, \h64B0FF, \h9290FF, \hC676FF, \hF36AFF, \hFE6ECC, \hFE8170, \hEA9E22,
       \hBCBE00, \h88D800, \h5CE430, \h45E082, \h48CDDE, \h4F4F4F, \h000000, \h000000,
       \hFFFFFF, \hC0DFFF, \hD3D2FF, \hE8C8FF, \hFBC2FF, \hFEC4EA, \hFECCC5, \hF7D8A5,
       \hE4E594, \hCFEF96, \hBDF4AB, \hB3F3CC, \hB5EBF2, \hB8B8B8, \h000000, \h000000 >>

\* bg_palette[x] of the scanline
BgPalette(m, x) ==
    IF BitAnd(m.ppu.mask, \h08) = 0 THEN 0
    ELSE LET v == CoarseXInc(m.ppu.v, (x + m.ppu.fine_x) \div 8)
             attr_addr == BitOr(BitOr(\h23C0, BitAnd(v, \h0C00)),
                                BitOr(BitAnd(v \div 16, \h38), BitAnd(v \div 4, \h07)))
             shift == BitOr(BitAnd(v \div 16, \h04), BitAnd(v, \h02))
         IN  BitAnd(ppu_bus_read(m, attr_addr) \div (2 ^ shift), \h03)

sprite_height(m) == IF BitAnd(m.ppu.ctrl, \h20) # 0 THEN 16 ELSE 8

\* sprite i overlaps the scanline
SpriteOnLine(m, i) ==
    /\ m.ppu.scanline - (Get(m.ppu.oam, i * 4) + 1) >= 0
    /\ m.ppu.scanline - (Get(m.ppu.oam, i * 4) + 1) < sprite_height(m)

\* sprite_indices: the first 8 sprites that overlap the scanline
sprite_indices(m) ==
    { i \in 0 .. 63 :
        /\ SpriteOnLine(m, i)
        /\ Cardinality({ j \in 0 .. (i - 1) : SpriteOnLine(m, j) }) < 8 }

\* the pattern row address of sprite i on the scanline
SpritePatternAddr(m, i) ==
    LET tile == Get(m.ppu.oam, i * 4 + 1)
        row0 == m.ppu.scanline - (Get(m.ppu.oam, i * 4) + 1)
        row1 == IF BitAnd(Get(m.ppu.oam, i * 4 + 2), \h80) # 0
                THEN sprite_height(m) - 1 - row0 ELSE row0
    IN  IF sprite_height(m) = 8
        THEN (IF BitAnd(m.ppu.ctrl, \h08) # 0 THEN \h1000 ELSE 0) + tile * 16 + row1
        ELSE (IF tile % 2 = 1 THEN \h1000 ELSE 0)
             + (IF row1 >= 8 THEN BitAnd(tile, \hFE) + 1 ELSE BitAnd(tile, \hFE)) * 16
             + (IF row1 >= 8 THEN row1 - 8 ELSE row1)

\* the pixel sprite i has at column x of the scanline, 0 where it has none
SpritePixel(m, i, x) ==
    LET attr == Get(m.ppu.oam, i * 4 + 2)
        px   == x - Get(m.ppu.oam, i * 4 + 3)
    IN  IF px \in 0 .. 7
        THEN PatternPixel(m, SpritePatternAddr(m, i),
                          IF BitAnd(attr, \h40) # 0 THEN px ELSE 7 - px)
        ELSE 0

\* what sprite i writes at a column where its pixel is pixel
SpriteEntry(m, i, pixel) ==
    [color    |-> Get(m.ppu.palette,
                      \h10 + BitAnd(Get(m.ppu.oam, i * 4 + 2), \h03) * 4 + pixel),
     priority |-> BitAnd(Get(m.ppu.oam, i * 4 + 2) \div 32, 1),
     opaque   |-> 1]

\* spr_color[x], spr_priority[x] and spr_opaque[x] after the sprite loop: the
\* sprites are painted from the last found to the first, so the entry is
\* that of the first one with a pixel at x; junk where there is none
SpriteBuffers(m, found, x, junk) ==
    LET painters == IF BitAnd(m.ppu.mask, \h10) = 0 THEN {}
                    ELSE { i \in found : SpritePixel(m, i, x) # 0 }
    IN  IF painters = {}
        THEN [color |-> junk.color, priority |-> junk.priority, opaque |-> 0]
        ELSE SpriteEntry(m,
                         CHOOSE i \in painters : \A j \in painters : i <= j,
                         SpritePixel(m, CHOOSE i \in painters : \A j \in painters : i <= j, x))

\* a variant that shows a sprite at every column: C21 does not hold of it
ShowSpr_Mut(m, x, spr) ==
    /\ BitAnd(m.ppu.mask, \h10) # 0
    /\ (x >= 8 \/ BitAnd(m.ppu.mask, \h04) # 0)

ShowSpr(m, x, spr) ==
    /\ spr.opaque # 0
    /\ BitAnd(m.ppu.mask, \h10) # 0
    /\ (x >= 8 \/ BitAnd(m.ppu.mask, \h04) # 0)

ShowBg(m, x, bg_pixel) ==
    /\ bg_pixel # 0
    /\ BitAnd(m.ppu.mask, \h08) # 0
    /\ (x >= 8 \/ BitAnd(m.ppu.mask, \h02) # 0)

\* the colour the compositing loop picks at column x over bg_pixel[x],
\* bg_palette[x] and the sprite buffers spr
Composite(m, x, bg_pixel, bg_palette, spr) ==
    IF ~ShowBg(m, x, bg_pixel) /\ ~ShowSpr(m, x, spr) THEN Get(m.ppu.palette, 0)
    ELSE IF ShowSpr(m, x, spr) /\ ~ShowBg(m, x, bg_pixel) THEN spr.color
    ELSE IF ~ShowSpr(m, x, spr) /\ ShowBg(m, x, bg_pixel)
         THEN Get(m.ppu.palette, bg_palette * 4 + bg_pixel)
    ELSE IF spr.priority = 0 THEN spr.color
    ELSE Get(m.ppu.palette, bg_palette * 4 + bg_pixel)

\* framebuffer[y * NES_WIDTH + x] as the compositing loop writes it
FramePixel(m, found, x, junk) ==
    The({ nes_palette[BitAnd(Composite(m, x, bg[1], bg[2], spr), \h3F) + 1] :
            bg \in { << BgPixel(m, x), BgPalette(m, x) >> },
            spr \in { SpriteBuffers(m, found, x, junk) } })

\* the framebuffer after render_scanline wrote the row of the scanline
FrameRow(m, junk) ==
    The({ [k \in (DOMAIN m.ppu.framebuffer)
                 \cup ((m.ppu.scanline * 256) .. (m.ppu.scanline * 256 + 255)) |->
              IF k \div 256 = m.ppu.scanline
              THEN FramePixel(m, found, k % 256, junk)
              ELSE m.ppu.framebuffer[k]] :
            found \in { sprite_indices(m) } })

\* the tick is one on which ppu_step calls render_scanline
Renders(m) ==
    /\ m.ppu.scanline >= 0 /\ m.ppu.scanline < 240
    /\ m.ppu.cycle = 0
    /\ BitAnd(m.ppu.mask, \h18) # 0

\* ppu_step with the framebuffer, junk in the unwritten sprite entries
StepDrawn(m, junk) ==
    IF Renders(m)
    THEN [ppu_step(m).m EXCEPT !.ppu.framebuffer = FrameRow(m, junk)]
    ELSE ppu_step(m).m

(***************************************************************************)
(* SpecRender: the PPU at cycle 0 of a scanline, pattern tables, palette   *)
(* and OAM set up, then register writes and ticks.                         *)
(***************************************************************************)
MaxRenderOps == 2

\* the junk bytes in the unwritten entries of spr_color and spr_priority
JunkValues == { [color |-> \h15, priority |-> 0], [color |-> \h2A, priority |-> 1] }

\* CHR RAM: tile 0 with alternate columns set in plane 0, tile 1 with a
\* two-plane pattern in every row, the same in both pattern tables
RenderChr ==
    [k \in { tbl + t * 16 + r : tbl \in {0, \h1000}, t \in 0 .. 1, r \in 0 .. 15 } |->
        CASE (k % \h1000) \div 16 = 0 /\ k % 16 < 8 -> \hAA
          [] (k % \h1000) \div 16 = 0 -> \h00
          [] k % 16 < 8 -> \hF0
          [] OTHER -> \h3C]

\* a palette of 32 different colours
RenderPalette == [k \in 0 .. 31 |-> (k * 2 + 1) % 64]

\* OAM as memset leaves it (64 sprites at the top left corner), and OAM with
\* three sprites on lines 10..17, two overlapping, one behind the background,
\* one over the right edge, the other 61 sprites below the screen
RenderOams ==
    { Zeroed,
      [k \in 0 .. 255 |->
          CASE k \in {0, 4, 8} -> 9
            [] k \in {1, 5, 9} -> 1
            [] k = 2 -> \h00
            [] k = 6 -> \h61
            [] k = 10 -> \h82
            [] k = 3 -> 100
            [] k = 7 -> 104
            [] k = 11 -> 252
            [] k % 4 = 0 -> \hF0
            [] OTHER -> 0] }

InitRender ==
    \E line \in {5, 12}, oam \in RenderOams, mask \in {\h00, \h08, \h10, \h1E},
       ctrl \in {\h00, \h18}, fine_x \in {0, 3} :
        /\ Holds([nes_init(Cartridge(0, << >>)) EXCEPT
                    !.cart.chr_ram = RenderChr,
                    !.ppu = [ppu_init EXCEPT !.scanline = line, !.oam = oam,
                                             !.mask = mask, !.ctrl = ctrl,
                                             !.fine_x = fine_x,
                                             !.palette = RenderPalette]])
        /\ Started("idle")

\* a write of PPUCTRL or PPUMASK
RenderWrite ==
    /\ Len(hist) < MaxRenderOps
    /\ \E rv \in { << 0, \h28 >>, << 1, \h1E >>, << 1, \h00 >> } :
          /\ Commit(ppu_cpu_write(M, rv[1], rv[2]))
          /\ hist' = Append(hist, Call("write", rv[1], rv[2]))
    /\ UNCHANGED << chip, FrameVars, NmiVars, CtlVars, ret >>

\* ppu_step
RenderStep ==
    /\ Len(hist) < MaxRenderOps
    /\ \E junk \in JunkValues : Commit(StepDrawn(M, junk))
    /\ hist' = Append(hist, Call("step", 0, 0))
    /\ UNCHANGED << chip, FrameVars, NmiVars, CtlVars, ret >>

NextRender == RenderWrite \/ RenderStep

SpecRender == InitRender /\ [][NextRender]_vars

\* C21: a tick leaves one PPU state and one framebuffer whatever junk the
\* unwritten entries of spr_color and spr_priority hold: the state after it
\* is a function of the state before it, so runs with the same ROM and the
\* same inputs have the same framebuffers.
C21_Deterministic ==
    [][IsKind("step") => \A junk \in JunkValues : ppu' = StepDrawn(M, junk).ppu]_vars

\* C21 witness: scanline 12 was rendered with background and sprites shown;
\* a column of the row shows the pixel a sprite wrote, a column where a
\* sprite is behind an opaque background shows the background, and a column
\* has no sprite entry written
C21_Witness ==
    /\ hist # << >>
    /\ LastCall.kind = "step"
    /\ ppu.scanline = 12 /\ ppu.cycle = 1
    /\ ppu.mask = \h1E
    /\ (12 * 256 + 255) \in DOMAIN ppu.framebuffer
    /\ \E x \in 100 .. 103 :
          /\ SpriteBuffers(M, sprite_indices(M), x, [color |-> \h15, priority |-> 0]).opaque = 1
          /\ ppu.framebuffer[12 * 256 + x] =
                nes_palette[SpriteBuffers(M, sprite_indices(M), x, [color |-> \h15, priority |-> 0]).color + 1]
    /\ \E x \in 108 .. 111 :
          /\ SpriteBuffers(M, sprite_indices(M), x, [color |-> \h15, priority |-> 0]).priority = 1
          /\ SpriteBuffers(M, sprite_indices(M), x, [color |-> \h15, priority |-> 0]).opaque = 1
          /\ ppu.framebuffer[12 * 256 + x] = nes_palette[RenderPalette[1] + 1]
    /\ SpriteBuffers(M, sprite_indices(M), 200, [color |-> \h15, priority |-> 0]).opaque = 0

(***************************************************************************)
(* SpecLoopy: the registers that move v, t and fine_x ($2000, $2005,       *)
(* $2006, $2007, and $2002 for the write toggle), written and read in any  *)
(* order, and ticks that render a scanline.                                *)
(***************************************************************************)
MaxLoopyOps == 6

\* the register writes explored: nametable 3 with increment 32, a scroll or
\* address byte of all ones, a low address byte, a data byte
LoopyWrites == { << 0, \h07 >>, << 5, \hFF >>, << 6, \hE0 >>, << 7, \h5A >> }

\* the PPU at power-on, at cycle 0 of scanline 0 with sprite rendering
\* enabled, two ticks before the end of scanline 100, and three ticks before
\* the end of the first frame
InitLoopy ==
    \E p \in { ppu_init, [ppu_init EXCEPT !.scanline = 0, !.mask = \h10],
               [ppu_init EXCEPT !.scanline = 100, !.cycle = 339],
               [ppu_init EXCEPT !.scanline = 260, !.cycle = 338,
                                !.status = \h80, !.nmi_occurred = TRUE] } :
        /\ Holds([nes_init(Cartridge(0, << >>)) EXCEPT !.ppu = p])
        /\ Started("idle")

\* ppu_cpu_write(ppu, reg, val)
LoopyWrite ==
    /\ Len(hist) < MaxLoopyOps
    /\ \E rv \in LoopyWrites :
          /\ Commit(ppu_cpu_write(M, rv[1], rv[2]))
          /\ hist' = Append(hist, Call("write", rv[1], rv[2]))
    /\ UNCHANGED << chip, FrameVars, NmiVars, CtlVars, ret >>

\* ppu_cpu_read(ppu, reg)
LoopyRead ==
    /\ Len(hist) < MaxLoopyOps
    /\ \E reg \in {2, 7} :
          /\ Commit(ppu_cpu_read(M, reg).m)
          /\ ret' = ppu_cpu_read(M, reg).val
          /\ hist' = Append(hist, Call("read", reg, ppu_cpu_read(M, reg).val))
    /\ UNCHANGED << chip, FrameVars, NmiVars, CtlVars >>

\* ppu_step(ppu)
LoopyStep ==
    /\ Len(hist) < MaxLoopyOps
    /\ Commit(ppu_step(M).m)
    /\ hist' = Append(hist, Call("step", 0, 0))
    /\ UNCHANGED << chip, FrameVars, NmiVars, CtlVars, ret >>

NextLoopy == LoopyWrite \/ LoopyRead \/ LoopyStep

SpecLoopy == InitLoopy /\ [][NextLoopy]_vars

\* C31 as stated: in every reachable PPU state v and t are 15-bit values and
\* fine_x a 3-bit value.
C31_LoopyWidths == ppu.v < \h8000 /\ ppu.t < \h8000 /\ ppu.fine_x < 8

\* the position in the frame, row-major from scanline -1 cycle 0
FramePos(p) == (p.scanline + 1) * 341 + p.cycle

\* C32: scanline stays in -1 .. 260 and cycle in 0 .. 340; ppu_step moves
\* the PPU to the next position in row-major order, back to scanline -1
\* cycle 0 after scanline 260 cycle 340, and adds one to frame on that tick
\* and on no other, so once in 341 * 262 = 89342 ticks; no register read or
\* write changes scanline, cycle or frame.
C32_Position ==
    [][/\ ppu.scanline \in -1 .. 260 /\ ppu.cycle \in 0 .. 340
       /\ ppu'.scanline \in -1 .. 260 /\ ppu'.cycle \in 0 .. 340
       /\ IsKind("step") =>
              /\ FramePos(ppu') = (FramePos(ppu) + 1) % 89342
              /\ ppu'.frame = ppu.frame
                     + (IF ppu.scanline = 260 /\ ppu.cycle = 340 THEN 1 ELSE 0)
              /\ TickIndex(ppu') = TickIndex(ppu) + 1
       /\ (IsKind("read") \/ IsKind("write")) =>
              /\ ppu'.scanline = ppu.scanline
              /\ ppu'.cycle = ppu.cycle
              /\ ppu'.frame = ppu.frame]_vars

\* C32 witness: a tick left scanline 260 cycle 340 of frame 0 for scanline -1
\* cycle 0 of frame 1, and a register access after it left the position alone
C32_Witness ==
    /\ Len(hist) >= 4
    /\ hist[3].kind = "step"
    /\ hist[3].pre.tick = 89341
    /\ hist[4].kind # "step"
    /\ ppu.frame = 1
    /\ ppu.scanline = -1
    /\ ppu.cycle = 0

(***************************************************************************)
(* The data port: $2005, $2006 and $2007 written and $2007 read, in any    *)
(* order.                                                                  *)
(***************************************************************************)
MaxDataOps == 7

\* the register writes explored: a scroll byte of all ones, two address
\* bytes (high bytes $20 and $3F once masked), a data byte
DataWrites == { << 5, \hFF >>, << 6, \hE0 >>, << 6, \h3F >>, << 7, \h5A >> }

RECURSIVE WriteAll(_, _, _)
WriteAll(m, ws, k) ==
    IF k > Len(ws) THEN m
    ELSE WriteAll(ppu_cpu_write(m, ws[k][1], ws[k][2]), ws, k + 1)

\* the machine at power-on, and after a program has set the increment to 32
\* and stored $77 at $23E0 and $11 at $3F00
DataMachines ==
    { nes_init(Cartridge(0, << >>)),
      WriteAll(nes_init(Cartridge(0, << >>)),
               << << 0, \h04 >>,
                  << 6, \h23 >>, << 6, \hE0 >>, << 7, \h77 >>,
                  << 6, \h3F >>, << 6, \h00 >>, << 7, \h11 >> >>, 1) }

InitData == \E m \in DataMachines : Holds(m) /\ Started("idle")

\* ppu_cpu_write(ppu, reg, val)
DataWrite ==
    /\ Len(hist) < MaxDataOps
    /\ \E rv \in DataWrites :
          /\ Commit(ppu_cpu_write(M, rv[1], rv[2]))
          /\ hist' = Append(hist, Call("write", rv[1], rv[2]))
    /\ UNCHANGED << chip, FrameVars, NmiVars, CtlVars, ret >>

\* ppu_cpu_read(ppu, 7)
DataRead ==
    /\ Len(hist) < MaxDataOps
    /\ Commit(ppu_cpu_read(M, 7).m)
    /\ ret' = ppu_cpu_read(M, 7).val
    /\ hist' = Append(hist, Call("read", 7, ppu_cpu_read(M, 7).val))
    /\ UNCHANGED << chip, FrameVars, NmiVars, CtlVars >>

NextData == DataWrite \/ DataRead

SpecData == InitData /\ [][NextData]_vars

\* the address two $2006 writes of hi and then lo leave in v
AddrOf(hi, lo) == BitAnd(hi, \h3F) * 256 + lo

\* the k-th of the last six calls of hist
Recent(k) == hist[Len(hist) - 6 + k]

\* the last six calls of hist set v to an address with two $2006 writes from
\* w = 0, wrote a byte to $2007, set v to the same address again and read
\* $2007 once
RoundTrip ==
    /\ Len(hist) >= 6
    /\ \A k \in {1, 2, 4, 5} : Recent(k).kind = "write" /\ Recent(k).addr = 6
    /\ ~Recent(1).pre.w
    /\ AddrOf(Recent(4).val, Recent(5).val) = AddrOf(Recent(1).val, Recent(2).val)
    /\ Recent(3).kind = "write" /\ Recent(3).addr = 7
    /\ Recent(6).kind = "read" /\ Recent(6).addr = 7

MaxNtOps == 3

\* the nametable writes explored, a byte of its own for each address: offset
\* $005 of each of the four tables, offset $006 of table 1, the last byte of
\* table 3, table 1 through the $3000 mirror and table 0 through $6000
NtWrites ==
    { << \h2005, \h10 >>, << \h2405, \h21 >>, << \h2805, \h32 >>,
      << \h2C05, \h43 >>, << \h2406, \h54 >>, << \h2FFF, \h65 >>,
      << \h3405, \h76 >>, << \h6005, \h87 >> }

\* the addresses read: those written, table 2 through the $3000 mirror, the
\* last address of that mirror, and table 3 through $A000
NtReads == { w[1] : w \in NtWrites } \cup { \h3805, \h3EFF, \hAC05 }

InitNt ==
    \E mirror \in { "MIRROR_VERTICAL", "MIRROR_HORIZONTAL" } :
        /\ Holds(nes_init([Cartridge(0, << >>) EXCEPT !.mirror = mirror]))
        /\ Started("idle")

\* ppu_bus_read(ppu, addr)
NtRead ==
    /\ Len(hist) < MaxNtOps
    /\ \E addr \in NtReads :
          /\ Commit(M)
          /\ ret' = ppu_bus_read(M, addr)
          /\ hist' = Append(hist, Call("ppu_bus_read", addr, ppu_bus_read(M, addr)))
    /\ UNCHANGED << chip, FrameVars, NmiVars, CtlVars >>

\* ppu_bus_write(ppu, addr, val)
NtWrite ==
    /\ Len(hist) < MaxNtOps
    /\ \E w \in NtWrites :
          /\ Commit(ppu_bus_write(M, w[1], w[2]))
          /\ hist' = Append(hist, Call("ppu_bus_write", w[1], w[2]))
    /\ UNCHANGED << chip, FrameVars, NmiVars, CtlVars, ret >>

NextNt == NtRead \/ NtWrite

SpecNt == InitNt /\ [][NextNt]_vars

\* the logical table (0 .. 3) and the offset within it of a nametable
\* address, taken modulo $4000 and with $3000-$3EFF folded onto $2000-$2EFF
NtTable(a) == (a % \h1000) \div \h0400

NtOffset(a) == a % \h0400

\* the two logical tables are one physical table
SameTable(mirror, s, t) ==
    \/ s = t
    \/ mirror = "MIRROR_VERTICAL" /\ { s, t } \in { { 0, 2 }, { 1, 3 } }
    \/ mirror = "MIRROR_HORIZONTAL" /\ { s, t } \in { { 0, 1 }, { 2, 3 } }

\* the two nametable addresses name one byte
SameByte(mirror, a, b) ==
    NtOffset(a) = NtOffset(b) /\ SameTable(mirror, NtTable(a), NtTable(b))

\* C34: a PPU bus read at a nametable address b returns the byte last
\* written at an address a with the same offset within its 1 KiB table and a
\* table that maps to the same physical table as b's (Vertical: 0 = 2 and
\* 1 = 3; Horizontal: 0 = 1 and 2 = 3), whatever was written at other
\* addresses, and 0 when there was no such write; $3000-$3EFF stands for
\* $2000-$2EFF and addresses are taken modulo $4000.
C34_NametableMirror ==
    [][IsKind("ppu_bus_read") =>
           LET b      == hist'[Len(hist')].addr
               writes == {i \in 1 .. Len(hist) :
                              /\ hist[i].kind = "ppu_bus_write"
                              /\ SameByte(cart.mirror, hist[i].addr, b)}
           IN  /\ writes = {} => ret' = 0
               /\ writes # {} =>
                      \E i \in writes :
                          /\ \A j \in writes : j <= i
                          /\ ret' = hist[i].val]_vars

\* C34 witness: under Vertical mirroring $32 written at $2805 (table 2) and
\* then $21 at $2405 (table 1) read back as $32 at $2005 (table 0)
C34_Witness ==
    /\ cart.mirror = "MIRROR_VERTICAL"
    /\ Len(hist) = 3
    /\ hist[1].kind = "ppu_bus_write" /\ hist[1].addr = \h2805
    /\ hist[2].kind = "ppu_bus_write" /\ hist[2].addr = \h2405
    /\ hist[3].kind = "ppu_bus_read" /\ hist[3].addr = \h2005
    /\ ret = \h32

(***************************************************************************)
(* The sprite-0 hit: ppu_step and reads of $2002 around a scanline that    *)
(* sprite 0 crosses, and around the pre-render line.                       *)
(***************************************************************************)
MaxHitOps == 3

\* OAM with sprite 0 on lines 10 .. 17 at column sx, tile 1, and the other 63
\* sprites below the screen
HitOam(sx, attr) ==
    [k \in 0 .. 255 |->
        CASE k = 0 -> 9
          [] k = 1 -> 1
          [] k = 2 -> attr
          [] k = 3 -> sx
          [] k % 4 = 0 -> \hF0
          [] OTHER -> 0]

\* the PPU at cycle 0 of a line sprite 0 crosses or of one it does not, the
\* sprite at the left edge, mid-screen or in the last column, in front of the
\* background or behind it; and at cycle 0 of the pre-render line that
\* follows a frame with a hit
HitStates ==
    { [ppu_init EXCEPT !.scanline = line, !.mask = mask, !.fine_x = fine_x,
                       !.oam = HitOam(sx, attr)] :
        line \in {5, 12}, mask \in {\h1E, \h1A, \h1C, \h18, \h08, \h10},
        fine_x \in {0, 1}, sx \in {0, 100, 255}, attr \in {\h00, \h20} }
    \cup
    { [ppu_init EXCEPT !.frame = 1, !.status = \hC0, !.nmi_occurred = TRUE,
                       !.mask = \h1E, !.oam = HitOam(100, \h00)] }

InitHit ==
    \E p \in HitStates :
        /\ Holds([nes_init(Cartridge(0, << >>)) EXCEPT
                    !.cart.chr_ram = RenderChr, !.ppu = p])
        /\ Started("idle")

\* ppu_step(ppu)
HitStep ==
    /\ Len(hist) < MaxHitOps
    /\ Commit(ppu_step(M).m)
    /\ hist' = Append(hist, Call("step", 0, 0))
    /\ UNCHANGED << chip, FrameVars, NmiVars, CtlVars, ret >>

\* ppu_cpu_read(ppu, 0x2002)
HitRead ==
    /\ Len(hist) < MaxHitOps
    /\ Commit(ppu_cpu_read(M, 2).m)
    /\ ret' = ppu_cpu_read(M, 2).val
    /\ hist' = Append(hist, Call("read", 2, ppu_cpu_read(M, 2).val))
    /\ UNCHANGED << chip, FrameVars, NmiVars, CtlVars >>

NextHit == HitStep \/ HitRead

SpecHit == InitHit /\ [][NextHit]_vars

\* column x of the line shows an opaque background pixel
BgShown(x) ==
    /\ Bit(ppu.mask, 3) = 1
    /\ x >= 8 \/ Bit(ppu.mask, 1) = 1
    /\ BgPixel(M, x) # 0

\* column x of the line shows an opaque pixel of sprite 0
SpriteZeroShown(x) ==
    /\ Bit(ppu.mask, 4) = 1
    /\ x >= 8 \/ Bit(ppu.mask, 2) = 1
    /\ SprZero(M, x)

\* C35: the tick that renders a visible scanline leaves status bit 6 set iff
\* it was set before or some column x in 0 .. 254 shows both an opaque
\* background pixel and an opaque pixel of sprite 0, whatever the sprite's
\* priority bit; column 255 does not count; every other tick but cycle 1 of
\* the pre-render line, which clears the bit, and every read of $2002 leave
\* the bit as it was, and the read returns it.
C35_SpriteZeroHit ==
    [][/\ (IsKind("step") /\ ppu.scanline \in 0 .. 239 /\ ppu.cycle = 0) =>
              (Bit(ppu'.status, 6) = 1
                   <=> \/ Bit(ppu.status, 6) = 1
                       \/ \E x \in 0 .. 254 : SpriteZeroShown(x) /\ BgShown(x))
       /\ (IsKind("step") /\ ppu.scanline = -1 /\ ppu.cycle = 1) =>
              Bit(ppu'.status, 6) = 0
       /\ (/\ IsKind("step")
           /\ ~(ppu.scanline \in 0 .. 239 /\ ppu.cycle = 0)
           /\ ~(ppu.scanline = -1 /\ ppu.cycle = 1)) =>
              Bit(ppu'.status, 6) = Bit(ppu.status, 6)
       /\ IsCall("read", 2) =>
              /\ Bit(ppu'.status, 6) = Bit(ppu.status, 6)
              /\ Bit(ret', 6) = Bit(ppu.status, 6)]_vars

\* C35 witness: scanline 12 was rendered with sprite 0 behind an opaque
\* background, the hit was set, a read of $2002 returned it and the tick
\* after the read left it set
C35_Witness ==
    /\ Len(hist) = 3
    /\ hist[1].kind = "step" /\ hist[2].kind = "read" /\ hist[3].kind = "step"
    /\ ppu.scanline = 12 /\ ppu.cycle = 2
    /\ Get(ppu.oam, 2) = \h20
    /\ Bit(hist[2].val, 6) = 1
    /\ Bit(ppu.status, 6) = 1

(***************************************************************************)
(* The decimal adder: ADC and SBC immediate, one step from every           *)
(* accumulator, operand and carry, decimal mode on.                        *)
(***************************************************************************)
\* status bytes with D set: no other flag but bit 5; N, V and Z set as well
BcdStatus == {\h28, \hEA}

InitBcd ==
    \E op \in {\h69, \hE9}, a \in 0 .. 255, val \in 0 .. 255,
       carry \in 0 .. 1, status \in BcdStatus :
        /\ Holds([FlatMachine EXCEPT
                      !.cpu = [cpu6502_init EXCEPT
                                   !.pc = \h0200, !.a = a, !.x = \h11,
                                   !.y = \h22, !.sp = \hFD,
                                   !.status = status + carry],
                      !.ram = (\h0200 :> op) @@ (\h0201 :> val)])
        /\ Started("idle")

\* cpu6502_step(cpu), once
BcdStep ==
    /\ Len(hist) < 1
    /\ Commit(cpu6502_step(M))
    /\ hist' = Append(hist, Call("step", cpu.pc, cpu_read(M, cpu.pc).val))
    /\ UNCHANGED << chip, FrameVars, NmiVars, CtlVars, ret >>

NextBcd == BcdStep

SpecBcd == InitBcd /\ [][NextBcd]_vars

\* the byte is a two-digit BCD number, and the number it encodes
IsBcd(b) == b % 16 <= 9 /\ b \div 16 <= 9

Dec(b) == (b \div 16) * 10 + (b % 16)

Bcd(n) == (n \div 10) * 16 + (n % 10)

\* C36: with D set, SBC leaves C = 1 iff A >= M + (1 - c), V = 1 iff the
\* signed difference is outside -128 .. 127, and Z and N from
\* (A - M - (1 - c)) mod 256: the flags binary SBC leaves for the same A, M
\* and c.  Only A differs from the binary result: for BCD operands it is the
\* BCD encoding of (dec(A) - dec(M) - (1 - c)) mod 100.
C36_SbcDecimalFlags ==
    [][(IsKind("step") /\ Get(ram, cpu.pc) = \hE9) =>
           LET val    == Get(ram, cpu.pc + 1)
               borrow == 1 - Bit(cpu.status, 0)
               res    == (cpu.a - val - borrow) % 256
               Signed(b) == IF b >= 128 THEN b - 256 ELSE b
               diff   == Signed(cpu.a) - Signed(val) - borrow
               binary == do_sbc([cpu EXCEPT !.status = BitAnd(@, \hF7)], val)
           IN  /\ Bit(cpu.status, 3) = 1
               /\ Bit(cpu'.status, 0) = (IF cpu.a >= val + borrow THEN 1 ELSE 0)
               /\ Bit(cpu'.status, 6) = (IF diff \in -128 .. 127 THEN 0 ELSE 1)
               /\ Bit(cpu'.status, 1) = (IF res = 0 THEN 1 ELSE 0)
               /\ Bit(cpu'.status, 7) = res \div 128
               /\ BitAnd(cpu'.status, \hC3) = BitAnd(binary.status, \hC3)
               /\ BitAnd(cpu'.status, \h3C) = BitAnd(cpu.status, \h3C)
               /\ (IsBcd(cpu.a) /\ IsBcd(val)) =>
                      cpu'.a = Bcd((Dec(cpu.a) - Dec(val) - borrow) % 100)
               /\ cpu'.x = cpu.x /\ cpu'.y = cpu.y /\ cpu'.sp = cpu.sp
               /\ cpu'.pc = cpu.pc + 2
               /\ ram' = ram]_vars

\* C36 witness: D = 1, A = $00, C = 1, SBC #$30 left A = $70 and the flags of
\* the binary result $D0: N set, C, Z and V clear
C36_Witness ==
    /\ Len(hist) = 1
    /\ hist[1].val = \hE9
    /\ hist[1].pre.cpu.a = \h00
    /\ hist[1].pre.cpu.status = \h29
    /\ Get(ram, \h0201) = \h30
    /\ cpu.a = \h70
    /\ cpu.status = \hA8

\* C37: with D set and both operands BCD, ADC leaves in A the BCD encoding
\* of (dec(A) + dec(M) + c) mod 100 and C = 1 iff dec(A) + dec(M) + c >= 100.
C37_AdcDecimal ==
    [][(/\ IsKind("step") /\ Get(ram, cpu.pc) = \h69
        /\ IsBcd(cpu.a) /\ IsBcd(Get(ram, cpu.pc + 1))) =>
           LET sum == Dec(cpu.a) + Dec(Get(ram, cpu.pc + 1)) + Bit(cpu.status, 0)
           IN  /\ Bit(cpu.status, 3) = 1
               /\ cpu'.a = Bcd(sum % 100)
               /\ Bit(cpu'.status, 0) = (IF sum >= 100 THEN 1 ELSE 0)]_vars

\* C37 witness: D = 1, A = $58, C = 1, ADC #$46 left A = $05 with C set
C37_Witness ==
    /\ Len(hist) = 1
    /\ hist[1].val = \h69
    /\ hist[1].pre.cpu.a = \h58
    /\ Bit(hist[1].pre.cpu.status, 0) = 1
    /\ Get(ram, \h0201) = \h46
    /\ cpu.a = \h05
    /\ Bit(cpu.status, 0) = 1

(***************************************************************************)
(* Addresses: JMP indirect, the eight branches and the zero-page           *)
(* addressing modes, one step from every operand byte, on the flat bus.    *)
(***************************************************************************)
\* JMP (ind); BPL, BMI, BVC, BVS, BCC, BCS, BNE, BEQ; LDA and STA zp,X; LDX
\* and STX zp,Y; LDA and STA (zp,X); LDA and STA (zp),Y
AddrOpcodes ==
    { \h6C, \h10, \h30, \h50, \h70, \h90, \hB0, \hD0, \hF0,
      \hB5, \h95, \hB6, \h96, \hA1, \h81, \hB1, \h91 }

\* bus_flat_t.ram: a different byte at every address of page 0, bytes of
\* their own at $1000, at $1100 and at the operand's place in page $10 and
\* the place after it, and the three bytes of the instruction
AddrRam(pc, op, operand) ==
    [k \in (0 .. \hFF) \cup { \h1000, \h1100, \h1000 + operand, \h1001 + operand }
           \cup { pc, pc + 1, pc + 2 } |->
        CASE k = pc -> op
          [] k = pc + 1 -> operand
          [] k = pc + 2 -> \h10
          [] k <= \hFF -> (k * 5 + 3) % 256
          [] OTHER -> (k * 3 + (k \div 256)) % 256]

InitAddr ==
    \E op \in AddrOpcodes, operand \in 0 .. 255, x \in {0, 1, \hFF},
       pc \in {\h02F0, \hFFF0}, status \in {\hE3, \h2C} :
        /\ Holds([FlatMachine EXCEPT
                      !.cpu = [cpu6502_init EXCEPT
                                   !.pc = pc, !.a = \hA5, !.x = x,
                                   !.y = (x + 5) % 256, !.sp = \hFD,
                                   !.status = status],
                      !.ram = AddrRam(pc, op, operand)])
        /\ Started("idle")

\* cpu6502_step(cpu), once
AddrStep ==
    /\ Len(hist) < 1
    /\ Commit(cpu6502_step(M))
    /\ hist' = Append(hist, Call("step", cpu.pc, cpu_read(M, cpu.pc).val))
    /\ UNCHANGED << chip, FrameVars, NmiVars, CtlVars, ret >>

NextAddr == AddrStep

SpecAddr == InitAddr /\ [][NextAddr]_vars

\* the step executes opcode op
Executes(op) == IsKind("step") /\ Get(ram, cpu.pc) = op

\* the operand byte of the instruction at PC
Operand == Get(ram, cpu.pc + 1)

\* the little-endian word whose bytes are at lo and hi
WordAt(lo, hi) == Get(ram, lo) + 256 * Get(ram, hi)

\* C38: JMP (ptr) takes the low byte of the new PC from ptr and the high byte
\* from (ptr & $FF00) | ((ptr + 1) & $00FF), which is ptr + 1 unless ptr ends
\* in $FF; A, X, Y, S, the status register and memory are unchanged.
C38_JmpIndirect ==
    [][Executes(\h6C) =>
           LET ptr == WordAt(cpu.pc + 1, cpu.pc + 2)
               hi  == (ptr \div 256) * 256 + ((ptr + 1) % 256)
           IN  /\ cpu'.pc = WordAt(ptr, hi)
               /\ (ptr % 256 # \hFF) => hi = ptr + 1
               /\ (ptr % 256 = \hFF) => hi = ptr - \hFF
               /\ cpu'.a = cpu.a /\ cpu'.x = cpu.x /\ cpu'.y = cpu.y
               /\ cpu'.sp = cpu.sp /\ cpu'.status = cpu.status
               /\ ram' = ram]_vars

\* C38 witness: JMP ($10FF) took its low byte from $10FF and its high byte
\* from $1000, which holds another byte than $1100
C38_Witness ==
    /\ Len(hist) = 1
    /\ hist[1].val = \h6C
    /\ Get(ram, hist[1].addr + 1) = \hFF
    /\ cpu.pc = Get(ram, \h10FF) + 256 * Get(ram, \h1000)
    /\ Get(ram, \h1000) # Get(ram, \h1100)

\* the flag condition of the branch opcode op holds
BranchCondition(op) ==
    CASE op = \h10 -> Bit(cpu.status, 7) = 0
      [] op = \h30 -> Bit(cpu.status, 7) = 1
      [] op = \h50 -> Bit(cpu.status, 6) = 0
      [] op = \h70 -> Bit(cpu.status, 6) = 1
      [] op = \h90 -> Bit(cpu.status, 0) = 0
      [] op = \hB0 -> Bit(cpu.status, 0) = 1
      [] op = \hD0 -> Bit(cpu.status, 1) = 0
      [] op = \hF0 -> Bit(cpu.status, 1) = 1

\* C39: a branch at P with operand o leaves PC = (P + 2 + signed8(o)) mod 2^16
\* when its condition holds and PC = P + 2 when it does not; A, X, Y, S, the
\* status register and memory are unchanged.
C39_Branch ==
    [][\A op \in { \h10, \h30, \h50, \h70, \h90, \hB0, \hD0, \hF0 } :
           Executes(op) =>
               /\ cpu'.pc = (IF BranchCondition(op)
                             THEN (cpu.pc + 2
                                   + (IF Operand >= 128 THEN Operand - 256
                                      ELSE Operand)) % 65536
                             ELSE cpu.pc + 2)
               /\ cpu'.a = cpu.a /\ cpu'.x = cpu.x /\ cpu'.y = cpu.y
               /\ cpu'.sp = cpu.sp /\ cpu'.status = cpu.status
               /\ ram' = ram]_vars

\* C39 witness: BEQ at $FFF0 with Z set and operand $7F left PC = $0071, past
\* the end of the address space
C39_Witness ==
    /\ Len(hist) = 1
    /\ hist[1].val = \hF0
    /\ hist[1].addr = \hFFF0
    /\ Get(ram, \hFFF1) = \h7F
    /\ Bit(cpu.status, 1) = 1
    /\ cpu.pc = \h0071

\* C40: zp,X and zp,Y address (operand + index) mod 256; (zp,X) takes its
\* pointer from (operand + X) mod 256 and (operand + X + 1) mod 256; (zp),Y
\* takes its base pointer from operand and (operand + 1) mod 256 and adds Y.
\* The loads read, and the stores write, that address.
C40_ZeroPageWrap ==
    [][LET zpx == (Operand + cpu.x) % 256
           zpy == (Operand + cpu.y) % 256
           izx == WordAt(zpx, (zpx + 1) % 256)
           izy == (WordAt(Operand, (Operand + 1) % 256) + cpu.y) % 65536
       IN  /\ Executes(\hB5) => cpu'.a = Get(ram, zpx)
           /\ Executes(\h95) => ram' = Put(ram, zpx, cpu.a)
           /\ Executes(\hB6) => cpu'.x = Get(ram, zpy)
           /\ Executes(\h96) => ram' = Put(ram, zpy, cpu.x)
           /\ Executes(\hA1) => cpu'.a = Get(ram, izx)
           /\ Executes(\h81) => ram' = Put(ram, izx, cpu.a)
           /\ Executes(\hB1) => cpu'.a = Get(ram, izy)
           /\ Executes(\h91) => ram' = Put(ram, izy, cpu.a)]_vars

\* C40 witness: LDA $FF,X with X = 1 loaded the byte at $0000
C40_Witness ==
    /\ Len(hist) = 1
    /\ hist[1].val = \hB5
    /\ Get(ram, hist[1].addr + 1) = \hFF
    /\ cpu.x = 1
    /\ cpu.a = Get(ram, \h0000)
    /\ cpu.a # Get(ram, \h0100)

====
